---- MODULE Spec2Model ----
(***************************************************************************)
(* Spyfall game server: the Game engine of backend/models.py, the          *)
(* GameTimer of backend/timer.py and the handlers / scheduled bot tasks of *)
(* backend/main.py.                                                        *)
(*                                                                         *)
(* The Game object is one record-valued variable; every engine method is   *)
(* an operator from (game, arguments, wall clock) to the method's return   *)
(* value and the game it leaves behind, written in the order of the code   *)
(* (early returns first, then the mutations).                              *)
(*                                                                         *)
(* Left out of the records: Player.name, Message.id/content/timestamp,     *)
(* Accusation.timestamp, Game.id/created_at/max_qa_rounds.  No branch of   *)
(* models.py, timer.py or main.py reads them.                              *)
(***************************************************************************)
EXTENDS Integers, Sequences, FiniteSets, TLC

\* ran is a history variable: the clock ticks game.timer has spent running
\* since its TimerState was constructed (counted by SpecTimer only).
\* call is the last call of a decision method of ClaudeClient: its arguments,
\* the completion it got and what it returned (SpecDecide only).
\* twin is a second Game object, driven by SpecTwin through the same calls as
\* game; every other specification leaves it as constructed.
VARIABLES game, now, sys, ran, twin, call

vars == <<game, now, sys, ran, twin, call>>

(* ------------------------------ bounds --------------------------------- *)

\* Longest message log explored (ask/answer are refused by the model beyond it).
MaxMsgs == 3

\* Longest accusation history explored by SpecAcc.
MaxAccs == 2

\* Longest accusation history explored by Spec.
MaxAccsQA == 1

\* Last value of the wall clock (ticks of time.time()).
MaxNow == 2

\* Longest message log explored by SpecSys.
MaxSysMsgs == 2

\* Longest accusation history explored by SpecEnd.
MaxEndAccs == 4

\* Longest accusation history explored by SpecSys.
MaxSysAccs == 1

\* Most tasks of SpecTasks that are cancelled and not yet stepped.
MaxWaiting == 1

\* Last value of the wall clock in SpecTimer.
MaxTimerNow == 5

\* Duration of the GameTimer of SpecTimer, in clock ticks.
TimerLen == 2

\* Round length in clock ticks (the code's 480 seconds, scaled to ticks).
TimerDuration == 1

(* ----------------------------- data model ------------------------------ *)

None == "None"

\* Clients that send join_game, and one connected client that never joins.
Joiners == {"p1", "p2", "p3"}

Outsider == "ghost"

Clients == Joiners \cup {Outsider}

\* Clients that join with is_bot = true.
BotClients == {"p3"}

\* The client whose connection drops and comes back.
Disconnecters == {"p1"}

\* A prefix of the LOCATIONS table, with the seven roles of each entry.
LOCATIONS ==
    << [name |-> "Airplane",
        roles |-> <<"Pilot", "Flight Attendant", "Passenger", "Air Marshal",
                    "Mechanic", "Tourist", "Businessman">>],
       [name |-> "Amusement Park",
        roles |-> <<"Ride Operator", "Parent", "Food Vendor", "Teenager",
                    "Janitor", "Security Guard", "Mascot">>] >>

\* Game.location before start_game (Optional[Location] = None).
NoLocation == [name |-> None, roles |-> <<>>]

Player(id, bot) ==
    [id |-> id, is_bot |-> bot, is_connected |-> TRUE, role |-> None,
     location_role |-> None, points |-> 0, has_accused_this_round |-> FALSE]

Message(type, from, to) == [type |-> type, from_id |-> from, to_id |-> to]

EmptyVotes == [v \in {} |-> TRUE]

Accusation(accuser, accused) ==
    [accuser_id |-> accuser, accused_id |-> accused, votes |-> EmptyVotes,
     is_active |-> TRUE]

\* TimerState(duration): an unset Optional[float] is 0, which the code's
\* truthiness tests (`if not self.started_at`) treat like None.
TimerState(duration) ==
    [duration |-> duration, started_at |-> 0, accumulated_paused_time |-> 0,
     is_running |-> FALSE, last_pause_time |-> 0, status |-> "not_started"]

NewGame ==
    [players |-> <<>>, status |-> "waiting", current_turn |-> None,
     location |-> NoLocation, spy_id |-> None, messages |-> <<>>,
     accusations |-> <<>>, clock_stopped |-> FALSE, clock_stopped_by |-> None,
     winner |-> None, end_reason |-> None, last_questioned_by |-> None,
     qa_rounds_completed |-> 0, timer |-> TimerState(TimerDuration)]

\* What a method returns together with the object it leaves behind.
Ret(ok, g) == [ok |-> ok, g |-> g]

TRet(val, t) == [val |-> val, t |-> t]

Max(a, b) == IF a >= b THEN a ELSE b

Min(S) == CHOOSE x \in S : \A y \in S : x <= y

(* ------------------------------- timer --------------------------------- *)

get_elapsed_time(t, n) ==
    IF t.started_at = 0 THEN 0
    ELSE IF t.is_running
         THEN (n - t.started_at) - t.accumulated_paused_time
    ELSE IF t.last_pause_time # 0
         THEN (t.last_pause_time - t.started_at) - t.accumulated_paused_time
    ELSE (n - t.started_at) - t.accumulated_paused_time

\* Lazy expiry: observing remaining = 0 sets status EXPIRED.
get_remaining_time(t, n) ==
    IF t.status = "expired" THEN TRet(0, t)
    ELSE LET remaining == Max(0, t.duration - get_elapsed_time(t, n))
         IN  TRet(remaining,
                  IF remaining <= 0 THEN [t EXCEPT !.status = "expired"] ELSE t)

timer_start(t, n) ==
    IF t.status # "not_started" THEN TRet(FALSE, t)
    ELSE TRet(TRUE, [t EXCEPT !.started_at = n, !.is_running = TRUE,
                              !.status = "running"])

timer_pause(t, n) ==
    IF ~t.is_running \/ t.status = "expired" THEN TRet(FALSE, t)
    ELSE TRet(TRUE, [t EXCEPT !.last_pause_time = n, !.is_running = FALSE,
                              !.status = "paused"])

\* GameTimer.resume that does not add the pause to accumulated_paused_time.
timer_resume_no_credit(t, n) ==
    IF t.is_running \/ t.status # "paused" THEN TRet(FALSE, t)
    ELSE TRet(TRUE, [t EXCEPT !.is_running = TRUE, !.status = "running",
                              !.last_pause_time = 0])

timer_resume(t, n) ==
    IF t.is_running \/ t.status # "paused" THEN TRet(FALSE, t)
    ELSE LET acc == IF t.last_pause_time # 0 /\ t.started_at # 0
                    THEN t.accumulated_paused_time + (n - t.last_pause_time)
                    ELSE t.accumulated_paused_time
         IN  TRet(TRUE, [t EXCEPT !.accumulated_paused_time = acc,
                                  !.is_running = TRUE, !.status = "running",
                                  !.last_pause_time = 0])

\* GameTimer.stop: a fresh TimerState of the same duration.
timer_stop(t) == TimerState(t.duration)

is_expired(t, n) ==
    LET r == get_remaining_time(t, n) IN TRet(r.val <= 0, r.t)

get_status(t, n) ==
    IF t.status # "expired"
    THEN LET r == get_remaining_time(t, n)
         IN  IF r.val <= 0
             THEN TRet("expired", [r.t EXCEPT !.status = "expired",
                                              !.is_running = FALSE])
             ELSE TRet(r.t.status, r.t)
    ELSE TRet(t.status, t)

\* GameTimer.to_dict: get_status(), then TimerState.to_dict() (which reads
\* the remaining time once more).
timer_to_dict(t, n) == get_remaining_time(get_status(t, n).t, n).t

(* --------------------------- roster helpers ---------------------------- *)

\* next((i for i, p in enumerate(players) if p.id == id), None), 1-based; 0 = None.
FindPlayer(g, id) ==
    LET S == {i \in 1..Len(g.players) : g.players[i].id = id}
    IN  IF S = {} THEN 0 ELSE Min(S)

PlayerIds(g) == {g.players[i].id : i \in 1..Len(g.players)}

\* The most recent active accusation (index into the history; 0 = None).
current_accusation(g) ==
    LET S == {i \in 1..Len(g.accusations) : g.accusations[i].is_active}
    IN  IF S = {} THEN 0 ELSE CHOOSE i \in S : \A j \in S : j <= i

\* _end_game that records the reason and leaves the game in its phase.
_end_game_keep_phase(g, reason, winner) ==
    [g EXCEPT !.end_reason = reason, !.winner = winner]

_end_game(g, reason, winner) ==
    [g EXCEPT !.status = "finished", !.end_reason = reason, !.winner = winner]

AddPoints(g, i, k) ==
    [g EXCEPT !.players[i].points = g.players[i].points + k]

\* spy = next((p for p in players if p.id == spy_id), None); if spy: spy.points += k
AwardSpy(g, k) ==
    LET i == FindPlayer(g, g.spy_id) IN IF i = 0 THEN g ELSE AddPoints(g, i, k)

(* --------------------------- engine: roster ---------------------------- *)

\* add_player without the limit of 8 players.
add_player_no_limit(g, player) ==
    IF g.status # "waiting" THEN Ret(FALSE, g)
    ELSE IF \E i \in 1..Len(g.players) : g.players[i].id = player.id
         THEN Ret(FALSE, g)
    ELSE Ret(TRUE, [g EXCEPT !.players = Append(g.players, player)])

add_player(g, player) ==
    IF Len(g.players) >= 8 THEN Ret(FALSE, g)
    ELSE IF g.status # "waiting" THEN Ret(FALSE, g)
    ELSE IF \E i \in 1..Len(g.players) : g.players[i].id = player.id
         THEN Ret(FALSE, g)
    ELSE Ret(TRUE, [g EXCEPT !.players = Append(g.players, player)])

_advance_turn(g) ==
    IF Len(g.players) = 0 \/ g.current_turn = None THEN g
    ELSE LET f == FindPlayer(g, g.current_turn)
             current_index == IF f = 0 THEN 0 ELSE f - 1
             next_index == (current_index + 1) % Len(g.players)
         IN  [g EXCEPT !.current_turn = g.players[next_index + 1].id]

remove_player(g, player_id) ==
    LET g1 == [g EXCEPT !.players =
                   SelectSeq(g.players, LAMBDA p : p.id # player_id)]
        g2 == IF g1.current_turn = player_id THEN _advance_turn(g1) ELSE g1
        g3 == IF g2.spy_id = player_id /\ g2.status = "in_progress"
              THEN _end_game(g2, "spy_accused", "innocents")
              ELSE g2
    IN  Ret(TRUE, g3)

\* random.choice(players) = players[s], random.choice(LOCATIONS) = LOCATIONS[l],
\* avail = the shuffled copy of the location's roles, reuse = the role that
\* random.choice(location.roles) returns once avail is used up.
_assign_roles(g, s, l, avail, reuse) ==
    LET n == Len(g.players)
        give(i) ==
            IF i = s THEN [g.players[i] EXCEPT !.role = "spy"]
            ELSE LET k == IF s < i THEN i - 1 ELSE i
                 IN  [g.players[i] EXCEPT
                         !.role = "innocent",
                         !.location_role =
                             IF k <= Len(avail) THEN avail[Len(avail) - k + 1]
                             ELSE reuse]
    IN  [g EXCEPT !.spy_id = g.players[s].id,
                  !.location = LOCATIONS[l],
                  !.players = [i \in 1..n |-> give(i)]]

\* start_game without the test of the phase.
start_game_any_phase(g, random_order, perm, s, l, avail, reuse, n) ==
    IF Len(g.players) < 3 THEN Ret(FALSE, g)
    ELSE LET g1 == IF random_order
                   THEN [g EXCEPT !.players =
                            [i \in 1..Len(g.players) |-> g.players[perm[i]]]]
                   ELSE g
             g2 == _assign_roles(g1, s, l, avail, reuse)
             g3 == IF Len(g2.players) > 0
                   THEN [g2 EXCEPT !.current_turn = g2.players[1].id]
                   ELSE g2
             g4 == [g3 EXCEPT !.status = "in_progress"]
         IN  Ret(TRUE, [g4 EXCEPT !.timer = timer_start(g4.timer, n).t])

\* perm = the order random.shuffle leaves the roster in.
start_game(g, random_order, perm, s, l, avail, reuse, n) ==
    IF Len(g.players) < 3 THEN Ret(FALSE, g)
    ELSE IF g.status # "waiting" THEN Ret(FALSE, g)
    ELSE LET g1 == IF random_order
                   THEN [g EXCEPT !.players =
                            [i \in 1..Len(g.players) |-> g.players[perm[i]]]]
                   ELSE g
             g2 == _assign_roles(g1, s, l, avail, reuse)
             g3 == IF Len(g2.players) > 0
                   THEN [g2 EXCEPT !.current_turn = g2.players[1].id]
                   ELSE g2
             g4 == [g3 EXCEPT !.status = "in_progress"]
         IN  Ret(TRUE, [g4 EXCEPT !.timer = timer_start(g4.timer, n).t])

(* ------------------------ engine: turn / messages ---------------------- *)

\* ask_question with the turn left where it was.
ask_question_keep_turn(g, from_player_id, to_player_id) ==
    IF g.status # "in_progress" \/ g.clock_stopped THEN Ret(FALSE, g)
    ELSE IF g.current_turn # from_player_id THEN Ret(FALSE, g)
    ELSE IF g.last_questioned_by = to_player_id THEN Ret(FALSE, g)
    ELSE Ret(TRUE,
             [g EXCEPT !.messages =
                           Append(g.messages,
                                  Message("question", from_player_id, to_player_id)),
                       !.last_questioned_by = from_player_id])

\* ask_question without the test against last_questioned_by.
ask_question_no_guard(g, from_player_id, to_player_id) ==
    IF g.status # "in_progress" \/ g.clock_stopped THEN Ret(FALSE, g)
    ELSE IF g.current_turn # from_player_id THEN Ret(FALSE, g)
    ELSE Ret(TRUE,
             [g EXCEPT !.messages =
                           Append(g.messages,
                                  Message("question", from_player_id, to_player_id)),
                       !.current_turn = to_player_id,
                       !.last_questioned_by = from_player_id])

\* ask_question without the test of turn ownership.
ask_question_any_turn(g, from_player_id, to_player_id) ==
    IF g.status # "in_progress" \/ g.clock_stopped THEN Ret(FALSE, g)
    ELSE IF g.last_questioned_by = to_player_id THEN Ret(FALSE, g)
    ELSE Ret(TRUE,
             [g EXCEPT !.messages =
                           Append(g.messages,
                                  Message("question", from_player_id, to_player_id)),
                       !.current_turn = to_player_id,
                       !.last_questioned_by = from_player_id])

ask_question(g, from_player_id, to_player_id) ==
    IF g.status # "in_progress" \/ g.clock_stopped THEN Ret(FALSE, g)
    ELSE IF g.current_turn # from_player_id THEN Ret(FALSE, g)
    ELSE IF g.last_questioned_by = to_player_id THEN Ret(FALSE, g)
    ELSE Ret(TRUE,
             [g EXCEPT !.messages =
                           Append(g.messages,
                                  Message("question", from_player_id, to_player_id)),
                       !.current_turn = to_player_id,
                       !.last_questioned_by = from_player_id])

\* give_answer that passes the turn on to the next player.
give_answer_advance(g, from_player_id) ==
    IF g.status # "in_progress" \/ g.clock_stopped THEN Ret(FALSE, g)
    ELSE IF g.current_turn # from_player_id THEN Ret(FALSE, g)
    ELSE Ret(TRUE,
             _advance_turn(
                 [g EXCEPT !.messages =
                               Append(g.messages,
                                      Message("answer", from_player_id,
                                              g.last_questioned_by)),
                           !.qa_rounds_completed = g.qa_rounds_completed + 1]))

give_answer(g, from_player_id) ==
    IF g.status # "in_progress" \/ g.clock_stopped THEN Ret(FALSE, g)
    ELSE IF g.current_turn # from_player_id THEN Ret(FALSE, g)
    ELSE Ret(TRUE,
             [g EXCEPT !.messages =
                           Append(g.messages,
                                  Message("answer", from_player_id,
                                          g.last_questioned_by)),
                       !.qa_rounds_completed = g.qa_rounds_completed + 1])

(* ---------------------- engine: mid-round accusation ------------------- *)

\* stop_clock_for_accusation that pauses the timer before it looks at the accuser.
stop_clock_for_accusation_pause_first(g, accuser_id, accused_id, n) ==
    IF g.status # "in_progress" \/ g.clock_stopped THEN Ret(FALSE, g)
    ELSE LET a == FindPlayer(g, accuser_id)
             g1 == [g EXCEPT !.timer = timer_pause(g.timer, n).t]
         IN  IF a = 0 \/ g.players[a].has_accused_this_round THEN Ret(FALSE, g1)
             ELSE Ret(TRUE,
                      [g1 EXCEPT !.clock_stopped = TRUE,
                                 !.clock_stopped_by = accuser_id,
                                 !.status = "voting",
                                 !.accusations =
                                     Append(g.accusations,
                                            Accusation(accuser_id, accused_id)),
                                 !.players[a].has_accused_this_round = TRUE])

\* stop_clock_for_accusation that does not record that the accuser has accused.
stop_clock_for_accusation_no_flag(g, accuser_id, accused_id, n) ==
    IF g.status # "in_progress" \/ g.clock_stopped THEN Ret(FALSE, g)
    ELSE LET a == FindPlayer(g, accuser_id)
         IN  IF a = 0 \/ g.players[a].has_accused_this_round THEN Ret(FALSE, g)
             ELSE Ret(TRUE,
                      [g EXCEPT !.timer = timer_pause(g.timer, n).t,
                                !.clock_stopped = TRUE,
                                !.clock_stopped_by = accuser_id,
                                !.status = "voting",
                                !.accusations =
                                    Append(g.accusations,
                                           Accusation(accuser_id, accused_id))])

stop_clock_for_accusation(g, accuser_id, accused_id, n) ==
    IF g.status # "in_progress" \/ g.clock_stopped THEN Ret(FALSE, g)
    ELSE LET a == FindPlayer(g, accuser_id)
         IN  IF a = 0 \/ g.players[a].has_accused_this_round THEN Ret(FALSE, g)
             ELSE Ret(TRUE,
                      [g EXCEPT !.timer = timer_pause(g.timer, n).t,
                                !.clock_stopped = TRUE,
                                !.clock_stopped_by = accuser_id,
                                !.status = "voting",
                                !.accusations =
                                    Append(g.accusations,
                                           Accusation(accuser_id, accused_id)),
                                !.players[a].has_accused_this_round = TRUE])

AllGuilty(votes) == \A v \in DOMAIN votes : votes[v]

SetVote(votes, voter_id, vote) ==
    [v \in DOMAIN votes \cup {voter_id} |->
        IF v = voter_id THEN vote ELSE votes[v]]

\* eligible_voters = [p.id for p in players if p.id != accused_id], as a count.
NumEligible(g, accused_id) ==
    Cardinality({i \in 1..Len(g.players) : g.players[i].id # accused_id})

\* _resolve_accusation that leaves the clock stopped when the accusation fails.
_resolve_accusation_keep_clock(g, n) ==
    LET c == current_accusation(g)
    IN  IF c = 0 THEN g
        ELSE LET acc == g.accusations[c]
                 unanimous_guilty ==
                     AllGuilty(acc.votes) /\ Cardinality(DOMAIN acc.votes) > 0
                 a == FindPlayer(g, acc.accused_id)
             IN  IF unanimous_guilty
                 THEN IF a = 0 THEN g
                      ELSE IF g.players[a].role = "spy"
                      THEN LET e == _end_game(g, "spy_accused", "innocents")
                           IN  [e EXCEPT !.players =
                                   [i \in 1..Len(e.players) |->
                                       IF e.players[i].role = "innocent"
                                       THEN [e.players[i] EXCEPT !.points =
                                                @ + (IF e.players[i].id = acc.accuser_id
                                                     THEN 2 ELSE 1)]
                                       ELSE e.players[i]]]
                      ELSE AwardSpy(_end_game(g, "innocent_accused", "spy"), 4)
                 ELSE [g EXCEPT !.timer = timer_resume(g.timer, n).t,
                                !.status = "in_progress",
                                !.accusations[c].is_active = FALSE]

_resolve_accusation(g, n) ==
    LET c == current_accusation(g)
    IN  IF c = 0 THEN g
        ELSE LET acc == g.accusations[c]
                 unanimous_guilty ==
                     AllGuilty(acc.votes) /\ Cardinality(DOMAIN acc.votes) > 0
                 a == FindPlayer(g, acc.accused_id)
             IN  IF unanimous_guilty
                 THEN IF a = 0 THEN g
                      ELSE IF g.players[a].role = "spy"
                      THEN LET e == _end_game(g, "spy_accused", "innocents")
                           IN  [e EXCEPT !.players =
                                   [i \in 1..Len(e.players) |->
                                       IF e.players[i].role = "innocent"
                                       THEN [e.players[i] EXCEPT !.points =
                                                @ + (IF e.players[i].id = acc.accuser_id
                                                     THEN 2 ELSE 1)]
                                       ELSE e.players[i]]]
                      ELSE AwardSpy(_end_game(g, "innocent_accused", "spy"), 4)
                 ELSE [g EXCEPT !.timer = timer_resume(g.timer, n).t,
                                !.clock_stopped = FALSE,
                                !.clock_stopped_by = None,
                                !.status = "in_progress",
                                !.accusations[c].is_active = FALSE]

\* vote_on_accusation that accepts votes in any phase.
vote_on_accusation_any_phase(g, voter_id, vote, n) ==
    LET c == current_accusation(g)
    IN  IF c = 0 THEN Ret(FALSE, g)
        ELSE IF voter_id = g.accusations[c].accused_id THEN Ret(FALSE, g)
        ELSE LET g1 == [g EXCEPT !.accusations[c].votes =
                            SetVote(g.accusations[c].votes, voter_id, vote)]
             IN  IF Cardinality(DOMAIN g1.accusations[c].votes)
                        = NumEligible(g1, g1.accusations[c].accused_id)
                 THEN Ret(TRUE, _resolve_accusation(g1, n))
                 ELSE Ret(TRUE, g1)

vote_on_accusation(g, voter_id, vote, n) ==
    LET c == current_accusation(g)
    IN  IF g.status # "voting" \/ c = 0 THEN Ret(FALSE, g)
        ELSE IF voter_id = g.accusations[c].accused_id THEN Ret(FALSE, g)
        ELSE LET g1 == [g EXCEPT !.accusations[c].votes =
                            SetVote(g.accusations[c].votes, voter_id, vote)]
             IN  IF Cardinality(DOMAIN g1.accusations[c].votes)
                        = NumEligible(g1, g1.accusations[c].accused_id)
                 THEN Ret(TRUE, _resolve_accusation(g1, n))
                 ELSE Ret(TRUE, g1)

(* --------------------------- engine: spy guess ------------------------- *)

\* str.lower() on the strings a guess, a location name or a should_accuse
\* tag can be here.
lower(s) ==
    CASE s \in {"Airplane", "AIRPLANE", "airplane"} -> "airplane"
      [] s \in {"Amusement Park", "amusement park"} -> "amusement park"
      [] s \in {"True", "TRUE", "true"} -> "true"
      [] s \in {"False", "false"} -> "false"
      [] OTHER -> s

\* spy_guess_location comparing the guess letter for letter.
spy_guess_location_exact(g, spy_id, guessed_location) ==
    IF g.status # "in_progress" THEN Ret(FALSE, g)
    ELSE IF spy_id # g.spy_id THEN Ret(FALSE, g)
    ELSE IF g.location = NoLocation THEN Ret(FALSE, g)
    ELSE IF g.clock_stopped THEN Ret(FALSE, g)
    ELSE IF guessed_location = g.location.name
    THEN Ret(TRUE, AwardSpy(_end_game(g, "spy_guessed_location", "spy"), 4))
    ELSE LET e == _end_game(g, "spy_failed_guess", "innocents")
         IN  Ret(TRUE,
                 [e EXCEPT !.players =
                     [i \in 1..Len(e.players) |->
                         IF e.players[i].role = "innocent"
                         THEN [e.players[i] EXCEPT !.points = @ + 1]
                         ELSE e.players[i]]])

spy_guess_location(g, spy_id, guessed_location) ==
    IF g.status # "in_progress" THEN Ret(FALSE, g)
    ELSE IF spy_id # g.spy_id THEN Ret(FALSE, g)
    ELSE IF g.location = NoLocation THEN Ret(FALSE, g)
    ELSE IF g.clock_stopped THEN Ret(FALSE, g)
    ELSE IF lower(guessed_location) = lower(g.location.name)
    THEN Ret(TRUE, AwardSpy(_end_game(g, "spy_guessed_location", "spy"), 4))
    ELSE LET e == _end_game(g, "spy_failed_guess", "innocents")
         IN  Ret(TRUE,
                 [e EXCEPT !.players =
                     [i \in 1..Len(e.players) |->
                         IF e.players[i].role = "innocent"
                         THEN [e.players[i] EXCEPT !.points = @ + 1]
                         ELSE e.players[i]]])

(* ------------------------ engine: end of the round --------------------- *)

\* _start_end_of_round_voting that leaves the accusation flags as they are.
_start_end_of_round_voting_keep_flags(g) ==
    LET c == current_accusation(g)
        g1 == IF c # 0 THEN [g EXCEPT !.accusations[c].is_active = FALSE] ELSE g
    IN  [g1 EXCEPT !.current_turn =
                      IF Len(g1.players) > 0 THEN g1.players[1].id ELSE None,
                   !.status = "end_of_round_voting",
                   !.clock_stopped = TRUE,
                   !.clock_stopped_by = "time_expired"]

_start_end_of_round_voting(g) ==
    LET c == current_accusation(g)
        g1 == IF c # 0 THEN [g EXCEPT !.accusations[c].is_active = FALSE] ELSE g
    IN  [g1 EXCEPT !.players =
                      [i \in 1..Len(g1.players) |->
                          [g1.players[i] EXCEPT !.has_accused_this_round = FALSE]],
                   !.current_turn =
                      IF Len(g1.players) > 0 THEN g1.players[1].id ELSE None,
                   !.status = "end_of_round_voting",
                   !.clock_stopped = TRUE,
                   !.clock_stopped_by = "time_expired"]

_handle_time_expiry(g) == _start_end_of_round_voting(g)

check_time_expired(g, n) ==
    IF g.status # "in_progress" \/ g.clock_stopped THEN Ret(FALSE, g)
    ELSE LET r == is_expired(g.timer, n)
             g1 == [g EXCEPT !.timer = r.t]
         IN  IF r.val THEN Ret(TRUE, _handle_time_expiry(g1))
             ELSE Ret(FALSE, g1)

\* make_end_of_round_accusation that forgets to set the accuser's flag.
make_end_of_round_accusation_no_flag(g, accuser_id, accused_id) ==
    IF g.status # "end_of_round_voting" THEN Ret(FALSE, g)
    ELSE IF accuser_id # g.current_turn THEN Ret(FALSE, g)
    ELSE IF accuser_id = accused_id THEN Ret(FALSE, g)
    ELSE LET a == FindPlayer(g, accuser_id)
         IN  IF a = 0 \/ g.players[a].has_accused_this_round THEN Ret(FALSE, g)
             ELSE Ret(TRUE,
                      [g EXCEPT !.accusations =
                                    Append(g.accusations,
                                           Accusation(accuser_id, accused_id))])

\* make_end_of_round_accusation open to players who do not hold the turn.
make_end_of_round_accusation_any_turn(g, accuser_id, accused_id) ==
    IF g.status # "end_of_round_voting" THEN Ret(FALSE, g)
    ELSE IF accuser_id = accused_id THEN Ret(FALSE, g)
    ELSE LET a == FindPlayer(g, accuser_id)
         IN  IF a = 0 \/ g.players[a].has_accused_this_round THEN Ret(FALSE, g)
             ELSE Ret(TRUE,
                      [g EXCEPT !.accusations =
                                    Append(g.accusations,
                                           Accusation(accuser_id, accused_id)),
                                !.players[a].has_accused_this_round = TRUE])

make_end_of_round_accusation(g, accuser_id, accused_id) ==
    IF g.status # "end_of_round_voting" THEN Ret(FALSE, g)
    ELSE IF accuser_id # g.current_turn THEN Ret(FALSE, g)
    ELSE IF accuser_id = accused_id THEN Ret(FALSE, g)
    ELSE LET a == FindPlayer(g, accuser_id)
         IN  IF a = 0 \/ g.players[a].has_accused_this_round THEN Ret(FALSE, g)
             ELSE Ret(TRUE,
                      [g EXCEPT !.accusations =
                                    Append(g.accusations,
                                           Accusation(accuser_id, accused_id)),
                                !.players[a].has_accused_this_round = TRUE])

\* _move_to_next_end_of_round_accuser that takes the last open player.
_move_to_next_end_of_round_accuser_last(g) ==
    LET c == current_accusation(g)
        g1 == IF c # 0 THEN [g EXCEPT !.accusations[c].is_active = FALSE] ELSE g
        len == Len(g1.players)
        f == FindPlayer(g1, g1.current_turn)
        current_index == IF f = 0 THEN 0 ELSE f - 1
        open == {i \in 1..(len - 1) :
                    ~g1.players[((current_index + i) % len) + 1].has_accused_this_round}
    IN  IF open # {}
        THEN [g1 EXCEPT !.current_turn =
                 g1.players[((current_index + (CHOOSE i \in open :
                                                  \A j \in open : j <= i))
                             % len) + 1].id]
        ELSE AwardSpy(_end_game(g1, "time_expired", "spy"), 2)

\* _move_to_next_end_of_round_accuser that starts a new cycle of accusations
\* with the dealer once everybody has accused.
_move_to_next_end_of_round_accuser_again(g) ==
    LET c == current_accusation(g)
        g1 == IF c # 0 THEN [g EXCEPT !.accusations[c].is_active = FALSE] ELSE g
        len == Len(g1.players)
        f == FindPlayer(g1, g1.current_turn)
        current_index == IF f = 0 THEN 0 ELSE f - 1
        open == {i \in 1..(len - 1) :
                    ~g1.players[((current_index + i) % len) + 1].has_accused_this_round}
    IN  IF open # {}
        THEN [g1 EXCEPT !.current_turn =
                 g1.players[((current_index + Min(open)) % len) + 1].id]
        ELSE [g1 EXCEPT !.current_turn = g1.players[1].id,
                        !.players =
                            [i \in 1..len |->
                                [g1.players[i] EXCEPT
                                    !.has_accused_this_round = FALSE]]]

_move_to_next_end_of_round_accuser(g) ==
    LET c == current_accusation(g)
        g1 == IF c # 0 THEN [g EXCEPT !.accusations[c].is_active = FALSE] ELSE g
        len == Len(g1.players)
        f == FindPlayer(g1, g1.current_turn)
        current_index == IF f = 0 THEN 0 ELSE f - 1
        open == {i \in 1..(len - 1) :
                    ~g1.players[((current_index + i) % len) + 1].has_accused_this_round}
    IN  IF open # {}
        THEN [g1 EXCEPT !.current_turn =
                 g1.players[((current_index + Min(open)) % len) + 1].id]
        ELSE AwardSpy(_end_game(g1, "time_expired", "spy"), 2)

\* _resolve_end_of_round_accusation without the accuser's extra point.
_resolve_end_of_round_accusation_no_bonus(g) ==
    LET c == current_accusation(g)
    IN  IF c = 0 THEN g
        ELSE LET acc == g.accusations[c]
                 a == FindPlayer(g, acc.accused_id)
             IN  IF AllGuilty(acc.votes) /\ Cardinality(DOMAIN acc.votes) > 0
                 THEN IF a # 0 /\ g.players[a].role = "spy"
                      THEN LET e == _end_game(g, "spy_accused", "innocents")
                           IN  [e EXCEPT !.players =
                                   [i \in 1..Len(e.players) |->
                                       [e.players[i] EXCEPT !.points =
                                           @ + (IF e.players[i].role = "innocent"
                                                THEN 1 ELSE 0)]]]
                      ELSE AwardSpy(_end_game(g, "innocent_accused", "spy"), 4)
                 ELSE _move_to_next_end_of_round_accuser(g)

_resolve_end_of_round_accusation(g) ==
    LET c == current_accusation(g)
    IN  IF c = 0 THEN g
        ELSE LET acc == g.accusations[c]
                 a == FindPlayer(g, acc.accused_id)
             IN  IF AllGuilty(acc.votes) /\ Cardinality(DOMAIN acc.votes) > 0
                 THEN IF a # 0 /\ g.players[a].role = "spy"
                      THEN LET e == _end_game(g, "spy_accused", "innocents")
                           IN  [e EXCEPT !.players =
                                   [i \in 1..Len(e.players) |->
                                       [e.players[i] EXCEPT !.points =
                                           @ + (IF e.players[i].role = "innocent"
                                                THEN 1 ELSE 0)
                                             + (IF e.players[i].id = acc.accuser_id
                                                THEN 1 ELSE 0)]]]
                      ELSE AwardSpy(_end_game(g, "innocent_accused", "spy"), 4)
                 ELSE _move_to_next_end_of_round_accuser(g)

vote_on_end_of_round_accusation(g, voter_id, vote) ==
    LET c == current_accusation(g)
    IN  IF g.status # "end_of_round_voting" THEN Ret(FALSE, g)
        ELSE IF c = 0 THEN Ret(FALSE, g)
        ELSE IF voter_id = g.accusations[c].accused_id THEN Ret(FALSE, g)
        ELSE IF FindPlayer(g, voter_id) = 0 THEN Ret(FALSE, g)
        ELSE LET g1 == [g EXCEPT !.accusations[c].votes =
                            SetVote(g.accusations[c].votes, voter_id, vote)]
             IN  IF Cardinality(DOMAIN g1.accusations[c].votes)
                        = NumEligible(g1, g1.accusations[c].accused_id)
                 THEN Ret(TRUE, _resolve_end_of_round_accusation(g1))
                 ELSE Ret(TRUE, g1)

(* ----------------------------- snapshots ------------------------------- *)

\* Game.to_dict: its one effect on the game is GameTimer.to_dict's lazy expiry.
to_dict(g, n) == [g EXCEPT !.timer = timer_to_dict(g.timer, n)]

\* The dictionary Game.to_dict returns (name, ids of messages, contents and
\* timestamps left out, availableLocations being the constant table).
to_dict_value(g, n) ==
    LET c == current_accusation(g)
        t == timer_to_dict(g.timer, n)
    IN  [status |-> g.status,
         players |-> [i \in 1..Len(g.players) |->
                         [id |-> g.players[i].id,
                          isBot |-> g.players[i].is_bot,
                          isConnected |-> g.players[i].is_connected,
                          points |-> g.players[i].points,
                          hasAccusedThisRound |->
                              g.players[i].has_accused_this_round]],
         currentTurn |-> g.current_turn,
         location |-> g.location.name,
         messages |-> g.messages,
         clockStopped |-> g.clock_stopped,
         lastQuestionedBy |-> g.last_questioned_by,
         qaRoundsCompleted |-> g.qa_rounds_completed,
         currentAccusation |->
             IF c = 0 THEN [accuser |-> None, accused |-> None, votes |-> EmptyVotes]
             ELSE [accuser |-> g.accusations[c].accuser_id,
                   accused |-> g.accusations[c].accused_id,
                   votes |-> g.accusations[c].votes],
         winner |-> g.winner,
         endReason |-> g.end_reason,
         spyId |-> IF g.status = "finished" THEN g.spy_id ELSE None,
         timer |-> [duration |-> t.duration,
                    started_at |-> t.started_at,
                    accumulated_paused_time |-> t.accumulated_paused_time,
                    is_running |-> t.is_running,
                    status |-> t.status,
                    remaining_time |-> get_remaining_time(t, n).val,
                    elapsed_time |-> get_elapsed_time(t, n)],
         isSpy |-> None, role |-> None]

\* to_player_dict that leaves the location in the Spy's dictionary.
to_player_dict_open(g, player_id, n) ==
    LET base_dict == to_dict_value(g, n)
        i == FindPlayer(g, player_id)
    IN  IF i = 0 THEN base_dict
        ELSE [base_dict EXCEPT
                 !.isSpy = g.players[i].role = "spy",
                 !.role = IF g.players[i].role = "innocent"
                          THEN g.players[i].location_role ELSE None]

\* The dictionary Game.to_player_dict returns; isSpy and role are the keys it
\* adds for a player of the roster (None here where the key is absent).
to_player_dict(g, player_id, n) ==
    LET base_dict == to_dict_value(g, n)
        i == FindPlayer(g, player_id)
    IN  IF i = 0 THEN base_dict
        ELSE [base_dict EXCEPT
                 !.isSpy = g.players[i].role = "spy",
                 !.role = IF g.players[i].role = "innocent"
                          THEN g.players[i].location_role ELSE None,
                 !.location = IF g.players[i].role = "spy" /\ g.status # "finished"
                              THEN None ELSE @]

(* --------------------- llm.py: the bots' decisions --------------------- *)

\* What get_xml_completion returns: None (no completion, or a tag missing),
\* or the dictionary of the stripped tag values.
NoResponse == [some |-> FALSE, target_id |-> "", should_accuse |-> ""]

XmlResponse(target_id, should_accuse) ==
    [some |-> TRUE, target_id |-> target_id, should_accuse |-> should_accuse]

\* What a decision method returns: None, or its tuple.
NoDecision == [some |-> FALSE, should_accuse |-> FALSE, target_id |-> ""]

Decision(should_accuse, target_id) ==
    [some |-> TRUE, should_accuse |-> should_accuse, target_id |-> target_id]

\* No decision method has been called yet.
NoCall ==
    [op |-> None, response |-> NoResponse, raised |-> FALSE, targets |-> {},
     result |-> NoDecision]

\* generate_question that returns the target the completion names unchecked.
generate_question_unchecked(response, raised, available_target_ids) ==
    IF raised THEN NoDecision
    ELSE IF response.some THEN Decision(FALSE, response.target_id)
    ELSE NoDecision

\* ClaudeClient.generate_question; raised = get_xml_completion (or the
\* building of the prompt) raised, which the except clause turns into None.
\* The pair returned is (target_id, question).
generate_question(response, raised, available_target_ids) ==
    IF raised THEN NoDecision
    ELSE IF response.some
    THEN IF response.target_id \in available_target_ids
         THEN Decision(FALSE, response.target_id)
         ELSE NoDecision
    ELSE NoDecision

\* ClaudeClient.should_make_accusation: (should_accuse, target_id, reasoning).
should_make_accusation(response, raised, potential_target_ids) ==
    IF raised THEN NoDecision
    ELSE IF response.some
    THEN LET should_accuse_str == lower(response.should_accuse)
             target_id == response.target_id
         IN  IF should_accuse_str \notin {"true", "false"}
             THEN Decision(FALSE, "")
             ELSE LET should_accuse == should_accuse_str = "true"
                  IN  IF /\ should_accuse
                         /\ target_id # ""
                         /\ target_id \in potential_target_ids
                      THEN Decision(TRUE, target_id)
                      ELSE Decision(FALSE, "")
    ELSE NoDecision

(* ------------------- the engine driven call by call -------------------- *)

JoinOrder == <<"p1", "p2", "p3">>

\* The orders random.shuffle can leave n players in.
Perms(n) == {p \in [1..n -> 1..n] : \A i, j \in 1..n : p[i] = p[j] => i = j}

\* The shuffles that turn the roster by k places, k in ks.
Turns(n, ks) ==
    {p \in Perms(n) : \E k \in ks : \A i \in 1..n : p[i] = ((i - 1 + k) % n) + 1}

Rotate(seq, k) == [i \in 1..Len(seq) |-> seq[((i - 1 + k) % Len(seq)) + 1]]

\* Location names a spy may send as a guess, in several letter cases.
Guesses == {"airplane", "AIRPLANE", "Amusement Park", "bank"}

\* pending_tasks (no task), the handlers in flight (none) and the tasks that
\* are no longer in pending_tasks but have not ended (none).
NoSys ==
    [task |-> [kind |-> None, pc |-> None, bots |-> <<>>, actor |-> None],
     hand |-> [c \in Clients |-> "idle"],
     old |-> {}]

Init ==
    /\ game = NewGame
    /\ now = 1
    /\ sys = NoSys
    /\ ran = 0
    /\ twin = NewGame
    /\ call = NoCall

\* time.time() advances.  The clock is read only as differences from
\* timer.started_at, so ticks before start_game are not explored.
Tick ==
    /\ now < MaxNow
    /\ game.status # "waiting"
    /\ now' = now + 1
    /\ UNCHANGED <<game, sys, ran, twin, call>>

\* join_game: the clients of JoinOrder join one after the other (their ids
\* are interchangeable names; the roster order is then set by the shuffle).
AddPlayer ==
    \E c \in Joiners :
        LET r == add_player(game, Player(c, c \in BotClients))
        IN  /\ Len(game.players) < Len(JoinOrder)
            /\ c = JoinOrder[Len(game.players) + 1]
            /\ r.ok
            /\ game' = r.g
            /\ UNCHANGED <<now, sys, ran, twin, call>>

\* start_game() as main.py calls it (random_order defaults to True), with the
\* shuffles turns, the spy choices spies, the location choices ls and the
\* role shuffles ks.
StartGameWith(turns, spies, ls, ks) ==
    \E perm \in Turns(Len(game.players), turns),
       s \in spies \cap (1..Len(game.players)), l \in ls, k \in ks :
        LET r == start_game(game, TRUE, perm, s, l,
                            Rotate(LOCATIONS[l].roles, k),
                            LOCATIONS[l].roles[1], now)
        IN  /\ r.ok
            /\ game' = r.g
            /\ UNCHANGED <<now, sys, ran, twin, call>>

StartGame == StartGameWith({1}, {1, 2}, {1}, {0})

AskQuestionWith(maxMsgs) ==
    \E from \in Clients, to \in Clients :
        LET r == ask_question(game, from, to)
        IN  /\ Len(game.messages) < maxMsgs
            /\ r.ok
            /\ game' = r.g
            /\ UNCHANGED <<now, sys, ran, twin, call>>

GiveAnswerWith(maxMsgs) ==
    \E from \in Clients :
        LET r == give_answer(game, from)
        IN  /\ Len(game.messages) < maxMsgs
            /\ r.ok
            /\ game' = r.g
            /\ UNCHANGED <<now, sys, ran, twin, call>>

StopClockWith(accusers, accuseds, maxAccs) ==
    \E accuser \in accusers, accused \in accuseds :
        LET r == stop_clock_for_accusation(game, accuser, accused, now)
        IN  /\ Len(game.accusations) < maxAccs
            /\ r.ok
            /\ game' = r.g
            /\ UNCHANGED <<now, sys, ran, twin, call>>

VoteWith(voters, values) ==
    \E voter \in voters, vote \in values :
        LET r == vote_on_accusation(game, voter, vote, now)
        IN  /\ r.ok
            /\ game' = r.g
            /\ UNCHANGED <<now, sys, ran, twin, call>>

SpyGuess ==
    \E c \in Clients, guess \in Guesses :
        LET r == spy_guess_location(game, c, guess)
        IN  /\ r.ok
            /\ game' = r.g
            /\ UNCHANGED <<now, sys, ran, twin, call>>

CheckTimeExpired ==
    LET r == check_time_expired(game, now)
    IN  /\ r.ok
        /\ game' = r.g
        /\ UNCHANGED <<now, sys, ran, twin, call>>

EndOfRoundAccuseWith(accuseds, maxAccs) ==
    \E accuser \in Clients, accused \in accuseds :
        LET r == make_end_of_round_accusation(game, accuser, accused)
        IN  /\ Len(game.accusations) < maxAccs
            /\ r.ok
            /\ game' = r.g
            /\ UNCHANGED <<now, sys, ran, twin, call>>

EndOfRoundVoteWith(voters, values) ==
    \E voter \in voters, vote \in values :
        LET r == vote_on_end_of_round_accusation(game, voter, vote)
        IN  /\ r.ok
            /\ game' = r.g
            /\ UNCHANGED <<now, sys, ran, twin, call>>

ToDict ==
    /\ game' = to_dict(game, now)
    /\ UNCHANGED <<now, sys, ran, twin, call>>

(* -------- Spec: questions and answers, with accusations that fail ------- *)

AskQuestion == AskQuestionWith(MaxMsgs)

GiveAnswer == GiveAnswerWith(MaxMsgs)

\* Accusations against p1, voted on by the roster.
StopClock == StopClockWith({"p2"}, {"p1"}, MaxAccsQA)

Vote == VoteWith(Joiners, BOOLEAN)

Next ==
    \/ Tick
    \/ AddPlayer
    \/ StartGame
    \/ AskQuestion
    \/ GiveAnswer
    \/ StopClock
    \/ Vote
    \/ SpyGuess
    \/ CheckTimeExpired
    \/ ToDict

Spec == Init /\ [][Next]_vars

(* ------------- SpecAcc: accusations, votes and the round's end ---------- *)

\* Accusations against p1 (the spy or an innocent, by the choice of the spy)
\* or against a client that is not in the roster; any client votes.
AccStopClock == StopClockWith({"p2", "p3"}, {"p1", Outsider}, MaxAccs)

\* The roster becomes <<p2, p3, p1>>; the spy is the dealer p2 or p1.
AccStartGame == StartGameWith({1}, {1, 3}, {1}, {0})

AccVote == VoteWith(Clients, BOOLEAN)

AccEndOfRoundAccuse == EndOfRoundAccuseWith({"p1", Outsider}, MaxAccs)

AccEndOfRoundVote == EndOfRoundVoteWith(Clients, BOOLEAN)

NextAcc ==
    \/ Tick
    \/ AddPlayer
    \/ AccStartGame
    \/ AccStopClock
    \/ AccVote
    \/ CheckTimeExpired
    \/ AccEndOfRoundAccuse
    \/ AccEndOfRoundVote
    \/ ToDict

SpecAcc == Init /\ [][NextAcc]_vars

(* ------------- SpecRemove: the engine with remove_player --------------- *)

RemovePlayer ==
    \E c \in Clients :
        LET r == remove_player(game, c)
        IN  /\ r.ok
            /\ game' = r.g
            /\ UNCHANGED <<now, sys, ran, twin, call>>

NextRemove ==
    \/ Tick
    \/ AddPlayer
    \/ AccStartGame
    \/ StopClock
    \/ Vote
    \/ RemovePlayer
    \/ CheckTimeExpired
    \/ ToDict

SpecRemove == Init /\ [][NextRemove]_vars

(* ---------- SpecSys: main.py's handlers and scheduled bot tasks --------- *)

\* A scheduled coroutine delayed_bot_action(game_id, kind, delay), suspended
\* at the await pc names.  bots = the rest of bots_to_vote, actor = the
\* current_player read before the sleep of handle_bot_end_of_round_accusation.
Task(kind, pc, bots, actor) ==
    [kind |-> kind, pc |-> pc, bots |-> bots, actor |-> actor]

\* No entry in pending_tasks, or one whose task is done.
NoTask == Task(None, None, <<>>, None)

\* What a run of a coroutine up to its next await leaves behind: the game,
\* the coroutine suspended at that await (NoTask once it has returned) and
\* the kind of delayed_bot_action it passed to schedule_task, if any.
Out(g, task) == [g |-> g, task |-> task, sched |-> None]

Sched(g, task, kind) == [g |-> g, task |-> task, sched |-> kind]

\* A task that is not, or no longer, the entry of pending_tasks and has not
\* ended; cancelled = task.cancel() has been called on it.
Superseded(task, cancelled) == [task |-> task, cancelled |-> cancelled]

\* Ids of the bots handle_start_game adds (uuid4 strings in the code).
AutoBots == <<"b1", "b2">>

\* Clients whose messages reach the handlers of SpecSys.
Humans == {"p1", "p2"}

\* The client that sends start_game.
Starters == {"p2"}

\* Targets of their ask_question / accuse_player messages.
SysTargets == {"p1", "p2", "p3"}

\* cancel_pending_task: task.cancel() on the entry unless it is done, and
\* the entry is deleted.  The cancelled task stays suspended until the event
\* loop steps it.
cancel_pending_task(s) ==
    IF s.task = NoTask THEN s
    ELSE [s EXCEPT !.task = NoTask,
                   !.old = @ \cup {Superseded(s.task, TRUE)}]

\* schedule_task that installs the new task without cancelling the old one.
schedule_task_no_cancel(s, kind) ==
    [s EXCEPT !.task = Task(kind, "sleep", <<>>, None),
              !.old = IF s.task = NoTask THEN @
                      ELSE @ \cup {Superseded(s.task, FALSE)}]

\* asyncio.create_task(delayed_bot_action(game_id, kind, delay)) followed by
\* schedule_task, with no await in between: the entry of pending_tasks is
\* cancelled and the new task, which has not run yet, takes its place.
schedule_task(s, kind) ==
    [cancel_pending_task(s) EXCEPT !.task = Task(kind, "sleep", <<>>, None)]

\* ConnectionManager.send_game_state: to_player_dict of every roster player.
send_game_state(g, n) == IF Len(g.players) > 0 THEN to_dict(g, n) ELSE g

\* bots_to_vote of handle_bot_voting / handle_end_of_round_bot_voting.
bots_to_vote(g) ==
    LET acc == g.accusations[current_accusation(g)]
        bots == SelectSeq(g.players,
                          LAMBDA p : /\ p.is_bot
                                     /\ p.id # acc.accused_id
                                     /\ p.id \notin DOMAIN acc.votes)
    IN  [i \in 1..Len(bots) |-> bots[i].id]

\* The `for bot in bots_to_vote` loop moving on to its next sleep(1).
next_bot(g, t) ==
    IF Len(t.bots) <= 1 THEN Out(g, NoTask)
    ELSE Out(g, [t EXCEPT !.bots = Tail(t.bots)])

\* handle_bot_voting up to its first sleep(1).
handle_bot_voting(g, t) ==
    IF current_accusation(g) = 0 \/ g.status # "voting" THEN {Out(g, NoTask)}
    ELSE IF bots_to_vote(g) = <<>> THEN {Out(g, NoTask)}
    ELSE {Out(g, [t EXCEPT !.pc = "vote_wait", !.bots = bots_to_vote(g)])}

\* handle_end_of_round_bot_voting up to its first sleep(1).
handle_end_of_round_bot_voting(g, t) ==
    IF current_accusation(g) = 0 \/ g.status # "end_of_round_voting"
    THEN {Out(g, NoTask)}
    ELSE IF bots_to_vote(g) = <<>> THEN {Out(g, NoTask)}
    ELSE {Out(g, [t EXCEPT !.pc = "eor_vote_wait", !.bots = bots_to_vote(g)])}

\* handle_bot_end_of_round_accusation up to its sleep(2).
handle_bot_end_of_round_accusation(g, t) ==
    IF g.status # "end_of_round_voting" THEN {Out(g, NoTask)}
    ELSE IF current_accusation(g) # 0
    THEN {Sched(g, NoTask, "end_of_round_voting")}
    ELSE LET i == FindPlayer(g, g.current_turn)
         IN  IF i = 0 \/ ~g.players[i].is_bot THEN {Out(g, NoTask)}
             ELSE IF g.players[i].has_accused_this_round THEN {Out(g, NoTask)}
             ELSE {Out(g, [t EXCEPT !.pc = "eor_think",
                                    !.actor = g.players[i].id])}

\* handle_bot_turn_immediate up to its first await.  With a last message the
\* log line before the answer branch reads last_message.to_player, which
\* Message does not have: the task ends with AttributeError, so the answer
\* branch is never entered; without a last message the bot asks.
handle_bot_turn_immediate(g, n) ==
    IF g.status = "voting" THEN {Sched(g, NoTask, "voting")}
    ELSE IF g.status = "end_of_round_voting"
    THEN {Sched(g, NoTask, "end_of_round_accusation")}
    ELSE IF g.status # "in_progress" \/ g.clock_stopped THEN {Out(g, NoTask)}
    ELSE LET i == FindPlayer(g, g.current_turn)
         IN  IF i = 0 \/ ~g.players[i].is_bot THEN {Out(g, NoTask)}
             ELSE IF Len(g.messages) > 0 THEN {Out(g, NoTask)}
             ELSE LET me == g.players[i].id
                      available_players ==
                          {p \in PlayerIds(g) :
                              p # me /\ p # g.last_questioned_by}
                  IN  IF available_players = {} THEN {Out(g, NoTask)}
                      ELSE {LET r == ask_question(g, me, target)
                            IN  IF r.ok
                                THEN Out(send_game_state(r.g, n),
                                         Task("turn", "ask_sent", <<>>, None))
                                ELSE Out(g, NoTask)
                            : target \in available_players}

\* delayed_bot_action once its asyncio.sleep(delay) is over.
delayed_bot_action(g, t, n) ==
    IF t.kind = "turn"
    THEN IF g.status \notin {"in_progress", "voting", "end_of_round_voting"}
         THEN {Out(g, NoTask)}
         ELSE IF g.status = "in_progress" /\ g.clock_stopped
         THEN {Out(g, NoTask)}
         ELSE handle_bot_turn_immediate(g, n)
    ELSE IF t.kind = "voting"
    THEN IF current_accusation(g) = 0 THEN {Out(g, NoTask)}
         ELSE IF g.status = "voting" THEN handle_bot_voting(g, t)
         ELSE IF g.status = "end_of_round_voting"
         THEN handle_end_of_round_bot_voting(g, t)
         ELSE {Out(g, NoTask)}
    ELSE IF t.kind = "end_of_round_voting"
    THEN IF g.status # "end_of_round_voting" THEN {Out(g, NoTask)}
         ELSE handle_end_of_round_bot_voting(g, t)
    ELSE IF g.status # "end_of_round_voting" THEN {Out(g, NoTask)}
         ELSE handle_bot_end_of_round_accusation(g, t)

\* The pending task runs from the await it is suspended at to its next one.
resume_task(g, t, n) ==
    CASE t.pc = "sleep" -> delayed_bot_action(g, t, n)
      [] t.pc = "ask_sent" ->
            \* the rest of send_game_state, then schedule_next_bot_action
            {Sched(send_game_state(g, n), NoTask, "turn")}
      [] t.pc = "vote_wait" ->
            {LET r == vote_on_accusation(g, Head(t.bots), vote, n)
             IN  IF r.ok
                 THEN Out(send_game_state(r.g, n), [t EXCEPT !.pc = "vote_sent"])
                 ELSE next_bot(g, t)
             : vote \in BOOLEAN}
      [] t.pc = "vote_sent" ->
            {next_bot(send_game_state(g, n), [t EXCEPT !.pc = "vote_wait"])}
      [] t.pc = "eor_vote_wait" ->
            {LET r == vote_on_end_of_round_accusation(g, Head(t.bots), vote)
             IN  IF r.ok
                 THEN Out(send_game_state(r.g, n),
                          [t EXCEPT !.pc = "eor_vote_sent"])
                 ELSE next_bot(g, t)
             : vote \in BOOLEAN}
      [] t.pc = "eor_vote_sent" ->
            LET g1 == send_game_state(g, n)
            IN  IF g1.status = "end_of_round_voting" /\ current_accusation(g1) = 0
                THEN \* schedule_task, then on to the sleep(1) of the next bot
                     {Sched(g1, next_bot(g1, [t EXCEPT !.pc = "eor_vote_wait"]).task,
                            "turn")}
                ELSE {next_bot(g1, [t EXCEPT !.pc = "eor_vote_wait"])}
      [] t.pc = "eor_think" ->
            LET potential_targets == PlayerIds(g) \ {t.actor}
            IN  IF potential_targets = {} THEN {Out(g, NoTask)}
                ELSE {LET r == make_end_of_round_accusation(g, t.actor, target)
                      IN  IF r.ok
                          THEN Out(send_game_state(r.g, n),
                                   [t EXCEPT !.pc = "eor_acc_sent"])
                          ELSE Out(g, NoTask)
                      : target \in potential_targets}
      [] t.pc = "eor_acc_sent" ->
            {Sched(send_game_state(g, n), NoTask, "turn")}
      [] OTHER -> {Out(g, NoTask)}

\* The while loop of handle_start_game: bots until there are three players.
add_bots(g) ==
    LET missing == IF Len(g.players) < 3 THEN 3 - Len(g.players) ELSE 0
        step(h, k) == IF k <= missing
                      THEN add_player(h, Player(AutoBots[k], TRUE)).g
                      ELSE h
    IN  step(step(g, 1), 2)

\* Task.__step with a coroutine that catches CancelledError and goes on.
step_task_swallow(g, z, n) == resume_task(g, z.task, n)

\* Task.__step: a cancelled task gets CancelledError thrown in at the await it
\* is suspended at and ends there (no coroutine of main.py catches it); any
\* other task runs to its next await.
step_task(g, z, n) ==
    IF z.cancelled THEN {Out(g, NoTask)} ELSE resume_task(g, z.task, n)

\* The event loop runs the task that is the entry of pending_tasks.  When the
\* run ends in schedule_task, the entry cancelled is the running task itself.
RunTask ==
    /\ sys.task # NoTask
    /\ \E o \in step_task(game, Superseded(sys.task, FALSE), now) :
          /\ game' = o.g
          /\ sys' = IF o.sched = None
                    THEN [sys EXCEPT !.task = o.task]
                    ELSE schedule_task([sys EXCEPT !.task = o.task], o.sched)
    /\ UNCHANGED <<now, ran, twin, call>>

\* The event loop steps z, a task that is no longer the entry of pending_tasks.
StepSuperseded(z) ==
    \E o \in step_task(game, z, now) :
        LET s1 == [sys EXCEPT !.old =
                      (@ \ {z}) \cup
                      (IF o.task = NoTask THEN {}
                       ELSE {Superseded(o.task, z.cancelled)})]
        IN  /\ game' = o.g
            /\ sys' = IF o.sched = None THEN s1
                      ELSE schedule_task(s1, o.sched)
            /\ UNCHANGED <<now, ran, twin, call>>

RunSuperseded == \E z \in sys.old : StepSuperseded(z)

\* A handler that awaits its sends: the rest of send_game_state, then the
\* task it schedules, if any.
HandlerResume ==
    \E c \in Clients :
        /\ sys.hand[c] # "idle"
        /\ game' = send_game_state(game, now)
        /\ sys' = IF sys.hand[c] = "send_turn"
                  THEN schedule_task([sys EXCEPT !.hand[c] = "idle"], "turn")
                  ELSE [sys EXCEPT !.hand[c] = "idle"]
        /\ UNCHANGED <<now, ran, twin, call>>

HandleJoinGameWith(joiners) ==
    \E c \in joiners :
        /\ sys.hand[c] = "idle"
        /\ LET i == FindPlayer(game, c)
               r == add_player(game, Player(c, c \in BotClients))
           IN  IF i # 0
               THEN /\ ~game.players[i].is_connected
                    /\ game' = send_game_state(
                                   [game EXCEPT !.players[i].is_connected = TRUE],
                                   now)
               ELSE /\ r.ok
                    /\ Len(game.players) < Len(JoinOrder)
                    /\ c = JoinOrder[Len(game.players) + 1]
                    /\ game' = send_game_state(r.g, now)
        /\ sys' = [sys EXCEPT !.hand[c] = "send"]
        /\ UNCHANGED <<now, ran, twin, call>>

HandleJoinGame == HandleJoinGameWith(Joiners)

HandleStartGameWith(starters) ==
    \E c \in starters :
        /\ sys.hand[c] = "idle"
        /\ FindPlayer(game, c) # 0
        /\ LET g1 == add_bots(game)
           IN  \E perm \in Turns(Len(g1.players), {2}), s \in {1, 2} :
                  LET r == start_game(g1, TRUE, perm, s, 1, LOCATIONS[1].roles,
                                      LOCATIONS[1].roles[1], now)
                  IN  /\ r.ok
                      /\ game' = send_game_state(r.g, now)
        /\ sys' = [sys EXCEPT !.hand[c] = "send_turn"]
        /\ UNCHANGED <<now, ran, twin, call>>

HandleStartGame == HandleStartGameWith(Starters)

HandleAskQuestion ==
    \E c \in Humans, target \in SysTargets :
        LET r == ask_question(game, c, target)
        IN  /\ sys.hand[c] = "idle"
            /\ Len(game.messages) < MaxSysMsgs
            /\ r.ok
            /\ game' = send_game_state(r.g, now)
            /\ sys' = [sys EXCEPT !.hand[c] = "send_turn"]
            /\ UNCHANGED <<now, ran, twin, call>>

HandleGiveAnswer ==
    \E c \in Humans :
        LET r == give_answer(game, c)
        IN  /\ sys.hand[c] = "idle"
            /\ Len(game.messages) < MaxSysMsgs
            /\ r.ok
            /\ game' = send_game_state(r.g, now)
            /\ sys' = [sys EXCEPT !.hand[c] = "send_turn"]
            /\ UNCHANGED <<now, ran, twin, call>>

HandleAccusePlayerWith(accusers, targets) ==
    \E c \in accusers, target \in targets :
        LET r == IF game.status = "end_of_round_voting"
                 THEN make_end_of_round_accusation(game, c, target)
                 ELSE stop_clock_for_accusation(game, c, target, now)
        IN  /\ sys.hand[c] = "idle"
            /\ Len(game.accusations) < MaxSysAccs
            /\ r.ok
            /\ game' = send_game_state(r.g, now)
            /\ sys' = [cancel_pending_task(sys) EXCEPT !.hand[c] = "send_turn"]
            /\ UNCHANGED <<now, ran, twin, call>>

HandleAccusePlayer == HandleAccusePlayerWith(Humans, SysTargets)

HandleVoteWith(voters) ==
    \E c \in voters, vote \in BOOLEAN :
        LET r == IF game.status = "end_of_round_voting"
                 THEN vote_on_end_of_round_accusation(game, c, vote)
                 ELSE vote_on_accusation(game, c, vote, now)
        IN  /\ sys.hand[c] = "idle"
            /\ r.ok
            /\ game' = send_game_state(r.g, now)
            /\ sys' = [sys EXCEPT !.hand[c] = "send_turn"]
            /\ UNCHANGED <<now, ran, twin, call>>

HandleVote == HandleVoteWith(Humans)

\* handle_client_disconnect that takes the player out of the game.
HandleClientDisconnectRemoving ==
    \E c \in Disconnecters :
        LET i == FindPlayer(game, c)
        IN  /\ sys.hand[c] = "idle"
            /\ i # 0
            /\ game.players[i].is_connected
            /\ game' = send_game_state(remove_player(game, c).g, now)
            /\ sys' = [sys EXCEPT !.hand[c] = "send"]
            /\ UNCHANGED <<now, ran, twin, call>>

HandleClientDisconnect ==
    \E c \in Disconnecters :
        LET i == FindPlayer(game, c)
        IN  /\ sys.hand[c] = "idle"
            /\ i # 0
            /\ game.players[i].is_connected
            /\ game' = send_game_state(
                           [game EXCEPT !.players[i].is_connected = FALSE], now)
            /\ sys' = [sys EXCEPT !.hand[c] = "send"]
            /\ UNCHANGED <<now, ran, twin, call>>

\* No task is waiting to be stepped after its entry was replaced.
NoneCancelled == sys.old = {}

\* Task.cancel() wakes the cancelled task up for the next iteration of the
\* event loop, and the step it then takes touches neither the game nor
\* pending_tasks: it is taken before any other step.
NextSys ==
    \/ RunSuperseded
    \/ NoneCancelled /\ Tick
    \/ NoneCancelled /\ HandleJoinGame
    \/ NoneCancelled /\ HandleStartGame
    \/ NoneCancelled /\ HandleAskQuestion
    \/ NoneCancelled /\ HandleGiveAnswer
    \/ NoneCancelled /\ HandleAccusePlayer
    \/ NoneCancelled /\ HandleVote
    \/ NoneCancelled /\ HandlerResume
    \/ NoneCancelled /\ RunTask

SpecSys == Init /\ [][NextSys]_vars

(* ------- SpecConn: questions and answers with a dropping connection ------ *)

NextConn ==
    \/ RunSuperseded
    \/ NoneCancelled /\ Tick
    \/ NoneCancelled /\ HandleJoinGame
    \/ NoneCancelled /\ HandleStartGame
    \/ NoneCancelled /\ HandleAskQuestion
    \/ NoneCancelled /\ HandleGiveAnswer
    \/ NoneCancelled /\ HandleClientDisconnect
    \/ NoneCancelled /\ HandlerResume
    \/ NoneCancelled /\ RunTask

SpecConn == Init /\ [][NextConn]_vars

\* SpecConn under fair scheduling: the event loop keeps running the pending
\* task and the handlers that await a send, and time keeps passing.  The
\* clients are under no obligation to send anything.
SpecConnFair ==
    /\ Init
    /\ [][NextConn]_vars
    /\ WF_vars(RunTask)
    /\ WF_vars(RunSuperseded)
    /\ WF_vars(HandlerResume)
    /\ WF_vars(Tick)

(* ---- SpecTasks: accusations, votes and bot tasks in any interleaving ---- *)

\* p1 is the one client that joins.
TasksJoinGame == HandleJoinGameWith({"p1"})

\* p1 sends start_game, and two bots are added.
TasksStartGame == HandleStartGameWith({"p1"})

\* p1 accuses the bot b1, or p2, who has not joined.
TasksAccusePlayer == HandleAccusePlayerWith({"p1"}, {"b1", "p2"})

TasksVote == HandleVoteWith({"p1"})

\* At most MaxWaiting tasks wait for the step that ends them.
FewWaiting == Cardinality(sys.old) <= MaxWaiting

\* The handlers of accusations and votes, the bot tasks and a caller of
\* check_time_expired.  A cancelled task is stepped at any time, before or
\* after the steps of the handlers and of the task that replaced it.
NextTasks ==
    \/ Tick
    \/ TasksJoinGame
    \/ TasksStartGame
    \/ TasksAccusePlayer /\ FewWaiting'
    \/ TasksVote
    \/ HandlerResume /\ FewWaiting'
    \/ RunTask /\ FewWaiting'
    \/ RunSuperseded
    \/ CheckTimeExpired

SpecTasks == Init /\ [][NextTasks]_vars

(* ------ SpecBots: questions and answers of one client and two bots ------ *)

\* p1 asks a bot, or answers the bot that asked.
BotsAskQuestion == HandleAskQuestion

BotsGiveAnswer == HandleGiveAnswer

\* No client accuses anybody; the event loop steps the tasks in any order.
NextBots ==
    \/ Tick
    \/ TasksJoinGame
    \/ TasksStartGame
    \/ BotsAskQuestion
    \/ BotsGiveAnswer
    \/ HandlerResume
    \/ RunTask
    \/ RunSuperseded

SpecBots == Init /\ [][NextBots]_vars

\* SpecBots under fair scheduling: the event loop keeps running the tasks and
\* the handlers that await a send, and time keeps passing.
SpecBotsFair ==
    /\ Init
    /\ [][NextBots]_vars
    /\ WF_vars(RunTask)
    /\ WF_vars(RunSuperseded)
    /\ WF_vars(HandlerResume)
    /\ WF_vars(Tick)

(* ----- SpecTwin: two games that differ in the location, call by call ---- *)

\* Both games get the same players.
TwinAddPlayer ==
    \E c \in Joiners :
        LET r == add_player(game, Player(c, c \in BotClients))
        IN  /\ Len(game.players) < Len(JoinOrder)
            /\ c = JoinOrder[Len(game.players) + 1]
            /\ r.ok
            /\ game' = r.g
            /\ twin' = add_player(twin, Player(c, c \in BotClients)).g
            /\ UNCHANGED <<now, sys, ran, call>>

\* start_game with the same shuffle and the same choice of the Spy in both
\* games; random.choice(LOCATIONS) and the shuffle of the roles differ.
TwinStartGame ==
    \E perm \in Turns(Len(game.players), {1}), s \in 1..Len(game.players),
       k \in {0, 1} :
        LET r == start_game(game, TRUE, perm, s, 1,
                            LOCATIONS[1].roles, LOCATIONS[1].roles[1], now)
            q == start_game(twin, TRUE, perm, s, 2,
                            Rotate(LOCATIONS[2].roles, k),
                            LOCATIONS[2].roles[1], now)
        IN  /\ r.ok
            /\ game' = r.g
            /\ twin' = q.g
            /\ UNCHANGED <<now, sys, ran, call>>

\* The calls below are made on both games with the same arguments, whatever
\* each of them returns.
TwinAskQuestion ==
    \E from \in Joiners, to \in Joiners :
        /\ Len(game.messages) < MaxSysMsgs
        /\ ask_question(game, from, to).ok
        /\ game' = ask_question(game, from, to).g
        /\ twin' = ask_question(twin, from, to).g
        /\ UNCHANGED <<now, sys, ran, call>>

TwinGiveAnswer ==
    \E from \in Joiners :
        /\ Len(game.messages) < MaxSysMsgs
        /\ give_answer(game, from).ok
        /\ game' = give_answer(game, from).g
        /\ twin' = give_answer(twin, from).g
        /\ UNCHANGED <<now, sys, ran, call>>

TwinStopClock ==
    \E accuser \in {"p1", "p2"}, accused \in {"p1", "p3"} :
        /\ Len(game.accusations) < MaxAccsQA
        /\ stop_clock_for_accusation(game, accuser, accused, now).ok
        /\ game' = stop_clock_for_accusation(game, accuser, accused, now).g
        /\ twin' = stop_clock_for_accusation(twin, accuser, accused, now).g
        /\ UNCHANGED <<now, sys, ran, call>>

TwinVote ==
    \E voter \in Joiners, vote \in BOOLEAN :
        /\ vote_on_accusation(game, voter, vote, now).ok
        /\ game' = vote_on_accusation(game, voter, vote, now).g
        /\ twin' = vote_on_accusation(twin, voter, vote, now).g
        /\ UNCHANGED <<now, sys, ran, call>>

TwinSpyGuess ==
    \E c \in Joiners, guess \in Guesses :
        /\ spy_guess_location(game, c, guess).ok
        /\ game' = spy_guess_location(game, c, guess).g
        /\ twin' = spy_guess_location(twin, c, guess).g
        /\ UNCHANGED <<now, sys, ran, call>>

TwinCheckTimeExpired ==
    /\ check_time_expired(game, now).ok
    /\ game' = check_time_expired(game, now).g
    /\ twin' = check_time_expired(twin, now).g
    /\ UNCHANGED <<now, sys, ran, call>>

TwinEndOfRoundAccuse ==
    \E accuser \in Joiners, accused \in {"p1", "p3"} :
        /\ Len(game.accusations) < MaxAccsQA + 1
        /\ make_end_of_round_accusation(game, accuser, accused).ok
        /\ game' = make_end_of_round_accusation(game, accuser, accused).g
        /\ twin' = make_end_of_round_accusation(twin, accuser, accused).g
        /\ UNCHANGED <<now, sys, ran, call>>

TwinEndOfRoundVote ==
    \E voter \in Joiners, vote \in BOOLEAN :
        /\ vote_on_end_of_round_accusation(game, voter, vote).ok
        /\ game' = vote_on_end_of_round_accusation(game, voter, vote).g
        /\ twin' = vote_on_end_of_round_accusation(twin, voter, vote).g
        /\ UNCHANGED <<now, sys, ran, call>>

\* send_game_state on both games: the snapshots are built, and building them
\* reads the timers.
TwinToDict ==
    /\ game.status # "waiting"
    /\ game' = to_dict(game, now)
    /\ twin' = to_dict(twin, now)
    /\ UNCHANGED <<now, sys, ran, call>>

NextTwin ==
    \/ Tick
    \/ TwinAddPlayer
    \/ TwinStartGame
    \/ TwinAskQuestion
    \/ TwinGiveAnswer
    \/ TwinStopClock
    \/ TwinVote
    \/ TwinSpyGuess
    \/ TwinCheckTimeExpired
    \/ TwinEndOfRoundAccuse
    \/ TwinEndOfRoundVote
    \/ TwinToDict

SpecTwin == Init /\ [][NextTwin]_vars

(* ----------- SpecDecide: the decision methods of ClaudeClient ----------- *)

\* The ids a completion can name: players, an id nobody has, nothing.
NamedIds == {"p1", "p2", "b1", Outsider, ""}

\* The lists of targets main.py can pass.
TargetLists == SUBSET {"p1", "p2", "b1"}

\* The should_accuse tags a completion can carry.
AccuseTags == {"true", "TRUE", "false", "maybe"}

XmlResponses ==
    {NoResponse} \cup {XmlResponse(t, a) : t \in NamedIds, a \in AccuseTags}

GenerateQuestion ==
    \E response \in XmlResponses, raised \in BOOLEAN, targets \in TargetLists :
        /\ call' = [op |-> "generate_question", response |-> response,
                   raised |-> raised, targets |-> targets,
                   result |-> generate_question(response, raised, targets)]
        /\ UNCHANGED <<game, now, sys, ran, twin>>

ShouldMakeAccusation ==
    \E response \in XmlResponses, raised \in BOOLEAN, targets \in TargetLists :
        /\ call' = [op |-> "should_make_accusation", response |-> response,
                   raised |-> raised, targets |-> targets,
                   result |-> should_make_accusation(response, raised, targets)]
        /\ UNCHANGED <<game, now, sys, ran, twin>>

NextDecide ==
    \/ GenerateQuestion
    \/ ShouldMakeAccusation

SpecDecide == Init /\ [][NextDecide]_vars

(* ------- SpecVotes: one accusation voted on by the client and a bot ------ *)

\* p1 accuses the bot b1; p1 and the bot b2 are the voters.
VotesAccusePlayer == HandleAccusePlayerWith({"p1"}, {"b1"})

\* The frames of p1 and the bot tasks; nobody asks a question.
NextVotes ==
    \/ Tick
    \/ TasksJoinGame
    \/ TasksStartGame
    \/ VotesAccusePlayer
    \/ TasksVote
    \/ HandlerResume
    \/ RunTask
    \/ RunSuperseded

\* The states in which the event loop has something to run: a registered
\* task, a task taken out of the registry that has not ended, a handler
\* suspended at a send.
CanRunTask == sys.task # NoTask

CanRunSuperseded == sys.old # {}

CanResumeHandler == \E c \in Clients : sys.hand[c] # "idle"

\* The event loop keeps running the tasks and the handlers that await a
\* send, and time keeps passing; p1 is under no obligation to send anything.
\* The first three conjuncts are WF_vars of RunTask, RunSuperseded and
\* HandlerResume, with ENABLED written out as the three predicates above.
SpecVotesFair ==
    /\ Init
    /\ [][NextVotes]_vars
    /\ ([]<>(~CanRunTask) \/ []<><<RunTask>>_vars)
    /\ ([]<>(~CanRunSuperseded) \/ []<><<RunSuperseded>>_vars)
    /\ ([]<>(~CanResumeHandler) \/ []<><<HandlerResume>>_vars)
    /\ WF_vars(Tick)

(* ------- SpecVerdict: mid-round accusations among the roster ----------- *)

\* Any roster player is the spy.
VerdictStartGame == StartGameWith({1}, {1, 2, 3}, {1}, {0})

\* Any client accuses any roster player, itself included.
VerdictStopClock == StopClockWith(Clients, Joiners, MaxAccs)

NextVerdict ==
    \/ Tick
    \/ AddPlayer
    \/ VerdictStartGame
    \/ VerdictStopClock
    \/ Vote
    \/ ToDict

SpecVerdict == Init /\ [][NextVerdict]_vars

(* --------- SpecFive: one accusation in a roster of five players -------- *)

JoinOrderFive == <<"p1", "p2", "p3", "p4", "p5">>

FiveIds == {"p1", "p2", "p3", "p4", "p5"}

AddPlayerFive ==
    \E c \in FiveIds :
        LET r == add_player(game, Player(c, FALSE))
        IN  /\ Len(game.players) < Len(JoinOrderFive)
            /\ c = JoinOrderFive[Len(game.players) + 1]
            /\ r.ok
            /\ game' = r.g
            /\ UNCHANGED <<now, sys, ran, twin, call>>

\* Started with all five; the dealer p1 or p2 is the spy.
FiveStartGame ==
    /\ Len(game.players) = Len(JoinOrderFive)
    /\ StartGameWith({0}, {1, 2}, {1}, {0})

\* p1 accuses p2, and the other four vote.
FiveStopClock == StopClockWith({"p1"}, {"p2"}, MaxAccsQA)

FiveVote == VoteWith(FiveIds, BOOLEAN)

NextFive ==
    \/ Tick
    \/ AddPlayerFive
    \/ FiveStartGame
    \/ FiveStopClock
    \/ FiveVote
    \/ ToDict

SpecFive == Init /\ [][NextFive]_vars

(* ------------- SpecEnd: the accusations of the round's end ------------- *)

\* The accuser in turn accuses any roster player.
EndAccuse == EndOfRoundAccuseWith(Joiners, MaxEndAccs)

\* Roster players vote.
EndVote == EndOfRoundVoteWith(Joiners, BOOLEAN)

NextEnd ==
    \/ Tick
    \/ AddPlayer
    \/ AccStartGame
    \/ CheckTimeExpired
    \/ EndAccuse
    \/ EndVote
    \/ ToDict

SpecEnd == Init /\ [][NextEnd]_vars

\* A roster player who has not voted on the live accusation votes.
EndVoteNew ==
    /\ game.status = "end_of_round_voting"
    /\ current_accusation(game) # 0
    /\ EndOfRoundVoteWith(
          Joiners \ DOMAIN game.accusations[current_accusation(game)].votes,
          BOOLEAN)

\* The states in which EndVoteNew can be taken: a roster player other than
\* the accused has no vote on the live end-of-round accusation.
CanVoteNew ==
    /\ game.status = "end_of_round_voting"
    /\ current_accusation(game) # 0
    /\ \E v \in Joiners \ DOMAIN game.accusations[current_accusation(game)].votes :
          /\ v # game.accusations[current_accusation(game)].accused_id
          /\ v \in PlayerIds(game)

\* SpecEnd where the accuser in turn does accuse and the players who have
\* not voted do vote: weak fairness of EndAccuse and of EndVoteNew, the
\* latter written out with CanVoteNew for ENABLED <<EndVoteNew>>_vars.
SpecEndFair ==
    /\ Init
    /\ [][NextEnd]_vars
    /\ WF_vars(EndAccuse)
    /\ ([]<>(~CanVoteNew) \/ []<><<EndVoteNew>>_vars)

(* ------------- SpecRoster: nine clients and a roster of eight ----------- *)

JoinOrderNine == <<"r1", "r2", "r3", "r4", "r5", "r6", "r7", "r8", "r9">>

NineIds == {JoinOrderNine[i] : i \in 1..Len(JoinOrderNine)}

\* add_player called for the next client of JoinOrderNine or for one that is
\* in the roster already, in any phase, whatever it returns.
AddPlayerNine ==
    \E c \in NineIds :
        /\ \/ c \in PlayerIds(game)
           \/ /\ Len(game.players) < Len(JoinOrderNine)
              /\ c = JoinOrderNine[Len(game.players) + 1]
        /\ game' = add_player(game, Player(c, FALSE)).g
        /\ UNCHANGED <<now, sys, ran, twin, call>>

\* start_game() whose shuffle turns the roster by 0 or 1 places; the spy is
\* the first or the last player.
NineStartGame ==
    \E k \in {0, 1}, s \in {1, Len(game.players)} :
        LET n == Len(game.players)
            r == start_game(game, TRUE,
                            [i \in 1..n |-> ((i - 1 + k) % n) + 1], s, 1,
                            LOCATIONS[1].roles, LOCATIONS[1].roles[1], now)
        IN  /\ r.ok
            /\ game' = r.g
            /\ UNCHANGED <<now, sys, ran, twin, call>>

NextRoster ==
    \/ Tick
    \/ AddPlayerNine
    \/ NineStartGame
    \/ CheckTimeExpired
    \/ ToDict

SpecRoster == Init /\ [][NextRoster]_vars

(* ------------------ SpecTimer: a GameTimer on its own ------------------- *)

\* GameTimer(duration = TimerLen), held in game.timer.
InitTimer ==
    /\ game = [NewGame EXCEPT !.timer = TimerState(TimerLen)]
    /\ now = 1
    /\ sys = NoSys
    /\ ran = 0
    /\ twin = NewGame
    /\ call = NoCall

\* time.time() advances by one tick; the tick counts as running time when
\* the timer's status is RUNNING.
TimerTick ==
    /\ now < MaxTimerNow
    /\ now' = now + 1
    /\ ran' = IF game.timer.status = "running" THEN ran + 1 ELSE ran
    /\ UNCHANGED <<game, sys, twin, call>>

\* The methods of GameTimer, called in any state, whatever they return.
TimerStart ==
    /\ game' = [game EXCEPT !.timer = timer_start(game.timer, now).t]
    /\ UNCHANGED <<now, sys, ran, twin, call>>

TimerPause ==
    /\ game' = [game EXCEPT !.timer = timer_pause(game.timer, now).t]
    /\ UNCHANGED <<now, sys, ran, twin, call>>

TimerResume ==
    /\ game' = [game EXCEPT !.timer = timer_resume(game.timer, now).t]
    /\ UNCHANGED <<now, sys, ran, twin, call>>

TimerStop ==
    /\ game' = [game EXCEPT !.timer = timer_stop(game.timer)]
    /\ ran' = 0
    /\ UNCHANGED <<now, sys, twin, call>>

TimerIsExpired ==
    /\ game' = [game EXCEPT !.timer = is_expired(game.timer, now).t]
    /\ UNCHANGED <<now, sys, ran, twin, call>>

TimerGetStatus ==
    /\ game' = [game EXCEPT !.timer = get_status(game.timer, now).t]
    /\ UNCHANGED <<now, sys, ran, twin, call>>

TimerToDict ==
    /\ game' = [game EXCEPT !.timer = timer_to_dict(game.timer, now)]
    /\ UNCHANGED <<now, sys, ran, twin, call>>

NextTimer ==
    \/ TimerTick
    \/ TimerStart
    \/ TimerPause
    \/ TimerResume
    \/ TimerStop
    \/ TimerIsExpired
    \/ TimerGetStatus
    \/ TimerToDict

SpecTimer == InitTimer /\ [][NextTimer]_vars

(* ------------------------------ claims --------------------------------- *)

LiveAccusations(g) == {i \in 1..Len(g.accusations) : g.accusations[i].is_active}

InRound(g) == g.status \in {"in_progress", "voting", "end_of_round_voting"}

\* C1: at most one Accusation of the history is live, so current_accusation
\* is none or that single live Accusation.
C1_AtMostOneLive ==
    /\ Cardinality(LiveAccusations(game)) <= 1
    /\ LiveAccusations(game) \in {{}, {current_accusation(game)}}

\* A mid-round accusation was resolved, the round ran out and an end-of-round
\* accusation is the live one.
C1_Witness ==
    /\ game.status = "end_of_round_voting"
    /\ Len(game.accusations) = 2
    /\ ~game.accusations[1].is_active
    /\ Cardinality(DOMAIN game.accusations[1].votes) > 0
    /\ game.accusations[2].is_active

\* C2: from a successful start_game onward, current_turn is the id of a
\* roster player.
C2_CurrentTurnInRoster ==
    game.status # "waiting" => game.current_turn \in PlayerIds(game)

\* C3: while the phase is IN_PROGRESS, VOTING or END_OF_ROUND_VOTING, exactly
\* one roster player has role Spy, it is the player spy_id names, and every
\* other roster player is Innocent.
C3_ExactlyOneSpy ==
    InRound(game) =>
        LET spies == {i \in 1..Len(game.players) : game.players[i].role = "spy"}
        IN  /\ Cardinality(spies) = 1
            /\ \A i \in spies : game.players[i].id = game.spy_id
            /\ \A i \in (1..Len(game.players)) \ spies :
                   game.players[i].role = "innocent"

\* C4: in every step of the handlers and bot tasks that changes the message
\* log, exactly one message is appended, and in the state the step starts
\* from the phase is IN_PROGRESS, the clock is not stopped and the sender of
\* the message holds the turn: the legality check of ask_question and
\* give_answer and the mutation it guards are one step.
C4_CheckAndMutateAtomic ==
    [][game'.messages # game.messages =>
          /\ Len(game'.messages) = Len(game.messages) + 1
          /\ SubSeq(game'.messages, 1, Len(game.messages)) = game.messages
          /\ game.status = "in_progress"
          /\ ~game.clock_stopped
          /\ game'.messages[Len(game'.messages)].from_id = game.current_turn]_vars

\* A bot task asked and is suspended in its send_game_state; meanwhile the
\* handler of the human it asked has applied give_answer and awaits its own
\* send.
C4_Witness ==
    /\ Len(game.messages) = 2
    /\ game.messages[1].type = "question"
    /\ game.messages[1].from_id \notin Humans
    /\ game.messages[2].type = "answer"
    /\ game.messages[2].from_id \in Humans
    /\ sys.task.pc = "ask_sent"
    /\ sys.hand[game.messages[2].from_id] = "send_turn"

\* start_game's arguments for a call that is expected to fail.
SomeStart(g, n) ==
    start_game(g, TRUE, [i \in 1..Len(g.players) |-> i], 1, 1,
               LOCATIONS[1].roles, LOCATIONS[1].roles[1], n)

\* The calls of the nine operations that fail on g.
FailedCalls(g, n) ==
    {r \in
        {add_player(g, Player(c, FALSE)) : c \in Clients}
        \cup {SomeStart(g, n)}
        \cup {ask_question(g, a, b) : a \in Clients, b \in Clients}
        \cup {give_answer(g, a) : a \in Clients}
        \cup {stop_clock_for_accusation(g, a, b, n) : a \in Clients, b \in Clients}
        \cup {vote_on_accusation(g, a, v, n) : a \in Clients, v \in BOOLEAN}
        \cup {spy_guess_location(g, a, x) : a \in Clients, x \in Guesses}
        \cup {make_end_of_round_accusation(g, a, b) : a \in Clients, b \in Clients}
        \cup {vote_on_end_of_round_accusation(g, a, v) : a \in Clients, v \in BOOLEAN}
     : ~r.ok}

\* C5: an operation that returns False leaves every field of the Game as
\* it was.
C5_FailureChangesNothing == \A r \in FailedCalls(game, now) : r.g = game

\* A second accusation by a player who has accused this round is refused
\* while the clock runs again, and so is a question by a player without
\* the turn.
C5_Witness ==
    /\ game.status = "in_progress"
    /\ \E i \in 1..Len(game.players) :
          /\ game.players[i].has_accused_this_round
          /\ ~stop_clock_for_accusation(game, game.players[i].id, "p1", now).ok
    /\ \E c \in Clients : ~ask_question(game, c, "p1").ok

\* C6: a successful ask_question(asker, target) appends one question from
\* asker to target, gives the turn to target and records asker as
\* last_questioned_by.
C6_AskQuestionEffect ==
    \A a \in Clients, b \in Clients :
        LET r == ask_question(game, a, b)
        IN  r.ok =>
              /\ r.g.current_turn = b
              /\ r.g.last_questioned_by = a
              /\ r.g.messages = Append(game.messages, Message("question", a, b))

\* The last step was a question: its target holds the turn.
C6_Witness ==
    /\ Len(game.messages) > 0
    /\ game.messages[Len(game.messages)].type = "question"
    /\ game.current_turn = game.messages[Len(game.messages)].to_id
    /\ game.last_questioned_by = game.messages[Len(game.messages)].from_id

\* C7: a successful give_answer leaves current_turn (the answerer) and
\* last_questioned_by alone and adds exactly 1 to the round counter.
C7_GiveAnswerEffect ==
    \A a \in Clients :
        LET r == give_answer(game, a)
        IN  r.ok =>
              /\ r.g.current_turn = game.current_turn
              /\ r.g.current_turn = a
              /\ r.g.last_questioned_by = game.last_questioned_by
              /\ r.g.qa_rounds_completed = game.qa_rounds_completed + 1

\* The last step was an answer to a question: the answerer holds the turn.
C7_Witness ==
    /\ Len(game.messages) > 1
    /\ game.messages[Len(game.messages)].type = "answer"
    /\ game.messages[Len(game.messages) - 1].type = "question"
    /\ game.current_turn = game.messages[Len(game.messages)].from_id
    /\ game.qa_rounds_completed = 1

Questions(g) == SelectSeq(g.messages, LAMBDA m : m.type = "question")

\* C8: of two consecutive questions of the log, the second never goes back
\* to the asker of the first.
C8_NoAskBack ==
    LET q == Questions(game)
    IN  \A i \in 1..(Len(q) - 1) :
            ~(q[i + 1].from_id = q[i].to_id /\ q[i + 1].to_id = q[i].from_id)

\* Question, answer, question, with an accusation that failed in between.
C8_Witness ==
    /\ Len(game.messages) = 3
    /\ game.messages[1].type = "question"
    /\ game.messages[2].type = "answer"
    /\ game.messages[3].type = "question"
    /\ Len(game.accusations) = 1
    /\ ~game.accusations[1].is_active

\* C9: stop_clock_for_accusation succeeds only in IN_PROGRESS with the clock
\* running and an accuser who has not accused this round; it then pauses the
\* timer, sets clock_stopped, appends a live Accusation without votes, sets
\* the accuser's flag and makes the phase VOTING.
C9_StopClockContract ==
    \A a \in Clients, b \in Clients :
        LET r == stop_clock_for_accusation(game, a, b, now)
            i == FindPlayer(game, a)
        IN  r.ok =>
              /\ game.status = "in_progress"
              /\ ~game.clock_stopped
              /\ i # 0
              /\ ~game.players[i].has_accused_this_round
              /\ r.g.timer.status = "paused"
              /\ ~r.g.timer.is_running
              /\ r.g.clock_stopped
              /\ r.g.accusations = Append(game.accusations, Accusation(a, b))
              /\ r.g.players[i].has_accused_this_round
              /\ r.g.status = "voting"

EligibleVoters(g, accused_id) == PlayerIds(g) \ {accused_id}

\* C10: a vote resolves the live accusation exactly when every eligible voter
\* (every roster player but the accused) has a recorded vote, which is
\* exactly when the number of recorded votes is the number N of eligible
\* voters; the verdict is guilty iff N > 0 and all N votes are guilty.
C10_ResolvedExactlyWhenAllVoted ==
    \A voter \in Clients, vote \in BOOLEAN :
        LET r == vote_on_accusation(game, voter, vote, now)
            c == current_accusation(game)
            votes == r.g.accusations[c].votes
            E == EligibleVoters(game, game.accusations[c].accused_id)
            resolved == r.g.status # "voting"
        IN  r.ok =>
              /\ resolved <=> E \subseteq DOMAIN votes
              /\ resolved <=> Cardinality(DOMAIN votes) = Cardinality(E)
              /\ r.g.status = "finished"
                    <=> /\ Cardinality(DOMAIN votes) = Cardinality(E)
                        /\ Cardinality(E) > 0
                        /\ \A v \in DOMAIN votes : votes[v]

\* C11: the voters recorded on every accusation of the history are roster
\* players other than its accused, each with one boolean; a vote by the
\* accused of the live accusation is refused and changes nothing.
C11_VotersAreEligible ==
    /\ \A i \in 1..Len(game.accusations) :
          /\ DOMAIN game.accusations[i].votes
                \subseteq EligibleVoters(game, game.accusations[i].accused_id)
          /\ \A v \in DOMAIN game.accusations[i].votes :
                game.accusations[i].votes[v] \in BOOLEAN
    /\ current_accusation(game) # 0 =>
          \A vote \in BOOLEAN :
              LET accused == game.accusations[current_accusation(game)].accused_id
                  r == vote_on_accusation(game, accused, vote, now)
                  e == vote_on_end_of_round_accusation(game, accused, vote)
              IN  ~r.ok /\ r.g = game /\ ~e.ok /\ e.g = game

\* The points each roster player gains from g to h.
Gain(g, h, i) == h.players[i].points - g.players[i].points

\* The vote (voter, vote) completes the votes of the eligible voters on the
\* live mid-round accusation and all of them are guilty.
VotesGuilty(g, voter, vote) ==
    LET c == current_accusation(g)
        votes == SetVote(g.accusations[c].votes, voter, vote)
    IN  /\ g.status = "voting"
        /\ c # 0
        /\ voter \in EligibleVoters(g, g.accusations[c].accused_id)
        /\ DOMAIN votes = EligibleVoters(g, g.accusations[c].accused_id)
        /\ \A v \in DOMAIN votes : votes[v]

C13_NotGuiltyResumes ==
    \A voter \in FiveIds, vote \in BOOLEAN :
        LET c == current_accusation(game)
            E == EligibleVoters(game, game.accusations[c].accused_id)
            votes == SetVote(game.accusations[c].votes, voter, vote)
            r == vote_on_accusation(game, voter, vote, now)
        IN  (game.status = "voting" /\ c # 0 /\ voter \in E) =>
              /\ r.ok
              /\ DOMAIN votes # E =>
                    /\ r.g.status = "voting"
                    /\ r.g.accusations[c].is_active
                    /\ r.g.clock_stopped
              /\ (DOMAIN votes = E /\ \E v \in E : ~votes[v]) =>
                    /\ ~r.g.accusations[c].is_active
                    /\ r.g.accusations[c].votes = votes
                    /\ ~r.g.clock_stopped
                    /\ r.g.timer.is_running
                    /\ r.g.timer.status = "running"
                    /\ r.g.status = "in_progress"
                    /\ r.g.current_turn = game.current_turn
                    /\ \A i \in 1..Len(game.players) : Gain(game, r.g, i) = 0

\* C14: spy_guess_location succeeds only in IN_PROGRESS with the clock
\* running and the spy as caller; it then ends the game: a guess equal to
\* the location's name up to letter case makes the spy win
\* (SPY_GUESSED_LOCATION, spy +4, nobody else gains), any other guess makes
\* the innocents win (SPY_FAILED_GUESS, each innocent +1, the spy nothing).
C14_SpyGuessContract ==
    \A c \in Clients, guess \in Guesses :
        LET r == spy_guess_location(game, c, guess)
            right == guess \in {"Airplane", "airplane", "AIRPLANE"}
                        /\ game.location.name = "Airplane"
        IN  r.ok =>
              /\ game.status = "in_progress"
              /\ ~game.clock_stopped
              /\ c = game.spy_id
              /\ FindPlayer(game, c) # 0
              /\ game.players[FindPlayer(game, c)].role = "spy"
              /\ r.g.status = "finished"
              /\ r.g.winner = (IF right THEN "spy" ELSE "innocents")
              /\ r.g.end_reason =
                    (IF right THEN "spy_guessed_location" ELSE "spy_failed_guess")
              /\ \A i \in 1..Len(game.players) :
                    Gain(game, r.g, i) =
                        IF right
                        THEN (IF game.players[i].role = "spy" THEN 4 ELSE 0)
                        ELSE (IF game.players[i].role = "innocent" THEN 1 ELSE 0)

\* After a question the spy guessed the location and won with 4 points.
C14_Witness ==
    /\ game.status = "finished"
    /\ game.end_reason = "spy_guessed_location"
    /\ game.winner = "spy"
    /\ Len(game.messages) > 0
    /\ game.players[FindPlayer(game, game.spy_id)].points = 4

\* C15: check_time_expired on an expired timer in IN_PROGRESS with the clock
\* running enters END_OF_ROUND_VOTING with no live accusation, every
\* has_accused_this_round flag cleared, current_turn = players[0] and
\* clock_stopped set; in any other phase, or with the clock stopped, it
\* returns False and changes nothing.
C15_TimeExpiryStartsEndOfRound ==
    LET r == check_time_expired(game, now)
    IN  /\ (game.status = "in_progress" /\ ~game.clock_stopped
                /\ is_expired(game.timer, now).val) =>
              /\ r.ok
              /\ r.g.status = "end_of_round_voting"
              /\ LiveAccusations(r.g) = {}
              /\ Len(r.g.accusations) = Len(game.accusations)
              /\ Len(r.g.players) = Len(game.players)
              /\ \A i \in 1..Len(r.g.players) :
                    /\ ~r.g.players[i].has_accused_this_round
                    /\ r.g.players[i].id = game.players[i].id
                    /\ Gain(game, r.g, i) = 0
              /\ r.g.current_turn = game.players[1].id
              /\ r.g.clock_stopped
        /\ (game.status # "in_progress" \/ game.clock_stopped) =>
              /\ ~r.ok
              /\ r.g = game

\* The round ran out after an accusation had failed: the phase is
\* END_OF_ROUND_VOTING, the old accusation is in the history, all flags are
\* cleared and the dealer holds the turn.
C15_Witness ==
    /\ game.status = "end_of_round_voting"
    /\ game.clock_stopped
    /\ game.clock_stopped_by = "time_expired"
    /\ Len(game.accusations) = 1
    /\ game.accusations[1].accuser_id # game.players[1].id
    /\ ~game.accusations[1].is_active
    /\ \A i \in 1..Len(game.players) : ~game.players[i].has_accused_this_round
    /\ game.current_turn = game.players[1].id

\* The round's time is up while questions and answers are still accepted.
TimeIsUp(g, n) ==
    /\ g.status = "in_progress"
    /\ ~g.clock_stopped
    /\ is_expired(g.timer, n).val

\* C16: once the round's time is up in IN_PROGRESS with the clock running,
\* the handlers and bot tasks eventually bring the game to
\* END_OF_ROUND_VOTING or FINISHED.
C16_ExpiryLeavesInProgress ==
    TimeIsUp(game, now) ~> game.status \in {"end_of_round_voting", "finished"}

\* C17: make_end_of_round_accusation succeeds only in END_OF_ROUND_VOTING,
\* for the holder of the turn, against somebody else, and once per accuser;
\* it then appends one live Accusation without votes and sets the accuser's
\* flag, and nothing else; a refused call changes nothing.
C17_EndOfRoundAccusationContract ==
    \A a \in Clients, b \in Clients :
        LET r == make_end_of_round_accusation(game, a, b)
            i == FindPlayer(game, a)
        IN  /\ r.ok =>
                  /\ game.status = "end_of_round_voting"
                  /\ a = game.current_turn
                  /\ a # b
                  /\ i # 0
                  /\ ~game.players[i].has_accused_this_round
                  /\ r.g = [game EXCEPT
                               !.accusations =
                                   Append(game.accusations,
                                          [accuser_id |-> a, accused_id |-> b,
                                           votes |-> EmptyVotes,
                                           is_active |-> TRUE]),
                               !.players[i].has_accused_this_round = TRUE]
            /\ ~r.ok => r.g = game

\* The first end-of-round accusation was just made by the dealer.
C17_Witness ==
    /\ game.status = "end_of_round_voting"
    /\ Len(game.accusations) = 1
    /\ game.accusations[1].is_active
    /\ game.accusations[1].votes = EmptyVotes
    /\ game.accusations[1].accuser_id = game.players[1].id
    /\ game.players[1].has_accused_this_round
    /\ ~make_end_of_round_accusation(game, game.players[1].id, "p1").ok

\* The vote (voter, vote) completes the votes of the eligible voters on the
\* live end-of-round accusation.
CompletesEndOfRoundVotes(g, voter, vote) ==
    LET c == current_accusation(g)
    IN  /\ g.status = "end_of_round_voting"
        /\ c # 0
        /\ voter \in EligibleVoters(g, g.accusations[c].accused_id)
        /\ DOMAIN SetVote(g.accusations[c].votes, voter, vote)
              = EligibleVoters(g, g.accusations[c].accused_id)

\* C18: an end-of-round accusation voted guilty by all eligible voters ends
\* the game: against the Spy, innocents win, each innocent gains 1 and the
\* accuser 1 more; against an Innocent, the spy wins (INNOCENT_ACCUSED) and
\* gains 4.
C18_EndOfRoundGuiltyScores ==
    \A voter \in Clients, vote \in BOOLEAN :
        LET c == current_accusation(game)
            acc == game.accusations[c]
            votes == SetVote(acc.votes, voter, vote)
            a == FindPlayer(game, acc.accused_id)
            r == vote_on_end_of_round_accusation(game, voter, vote)
        IN  (/\ CompletesEndOfRoundVotes(game, voter, vote)
             /\ \A v \in DOMAIN votes : votes[v]
             /\ a # 0) =>
              /\ r.ok
              /\ r.g.status = "finished"
              /\ IF game.players[a].role = "spy"
                 THEN /\ r.g.winner = "innocents"
                      /\ \A i \in 1..Len(game.players) :
                            Gain(game, r.g, i) =
                                (IF game.players[i].role = "innocent" THEN 1 ELSE 0)
                                + (IF game.players[i].id = acc.accuser_id
                                   THEN 1 ELSE 0)
                 ELSE /\ r.g.winner = "spy"
                      /\ r.g.end_reason = "innocent_accused"
                      /\ \A i \in 1..Len(game.players) :
                            Gain(game, r.g, i) =
                                IF game.players[i].role = "spy" THEN 4 ELSE 0

\* At the round's end the spy was accused and voted guilty by everybody
\* else: the accuser has 2 points and another innocent 1.
C18_Witness ==
    /\ game.status = "finished"
    /\ game.clock_stopped_by = "time_expired"
    /\ game.winner = "innocents"
    /\ current_accusation(game) # 0
    /\ LET acc == game.accusations[current_accusation(game)]
       IN  /\ acc.accused_id = game.spy_id
           /\ game.players[FindPlayer(game, acc.accuser_id)].points = 2
           /\ \E i \in 1..Len(game.players) : game.players[i].points = 1

\* The roster positions after position i, in turn order with wrap-around,
\* whose player has not accused this round (as offsets 1..n-1 from i).
OpenAfter(g, i) ==
    {k \in 1..(Len(g.players) - 1) :
        ~g.players[((i - 1 + k) % Len(g.players)) + 1].has_accused_this_round}

\* The players who have accused since the round's end began.
EndAccusers(g) ==
    {i \in 1..Len(g.players) : g.players[i].has_accused_this_round}

\* C19: the vote that completes an end-of-round accusation without making
\* it unanimous-guilty, while somebody has not accused yet, deactivates the
\* accusation, keeps the phase END_OF_ROUND_VOTING and gives the turn to the
\* next player after the accuser, in roster order with wrap-around, who has
\* not accused; so the accusers of the round's end are players[0],
\* players[1], ... in this order.
C19_NextAccuserInRosterOrder ==
    /\ \A voter \in Clients, vote \in BOOLEAN :
          LET c == current_accusation(game)
              acc == game.accusations[c]
              votes == SetVote(acc.votes, voter, vote)
              i == FindPlayer(game, acc.accuser_id)
              r == vote_on_end_of_round_accusation(game, voter, vote)
          IN  (/\ CompletesEndOfRoundVotes(game, voter, vote)
               /\ \E v \in DOMAIN votes : ~votes[v]
               /\ OpenAfter(game, i) # {}) =>
                /\ r.ok
                /\ r.g.status = "end_of_round_voting"
                /\ ~r.g.accusations[c].is_active
                /\ LiveAccusations(r.g) = {}
                /\ r.g.current_turn =
                      game.players[((i - 1 + Min(OpenAfter(game, i)))
                                    % Len(game.players)) + 1].id
    /\ game.status = "end_of_round_voting" =>
          LET k == Cardinality(EndAccusers(game))
              n == Len(game.accusations)
          IN  /\ EndAccusers(game) = 1..k
              /\ k <= n
              /\ \A j \in 1..k :
                    game.accusations[n - k + j].accuser_id = game.players[j].id

\* Two accusations of the round's end failed: the dealer's and the second
\* player's, and the third player holds the turn.
C19_Witness ==
    /\ game.status = "end_of_round_voting"
    /\ Len(game.accusations) = 2
    /\ LiveAccusations(game) = {}
    /\ game.accusations[1].accuser_id = game.players[1].id
    /\ game.accusations[2].accuser_id = game.players[2].id
    /\ game.current_turn = game.players[3].id

\* C20, the last resolution: the vote that completes an end-of-round
\* accusation without making it unanimous-guilty, when everybody has
\* accused, ends the game with winner spy, reason TIME_EXPIRED and 2 points
\* for the spy alone.
C20_LastResolution ==
    \A voter \in Clients, vote \in BOOLEAN :
        LET c == current_accusation(game)
            acc == game.accusations[c]
            votes == SetVote(acc.votes, voter, vote)
            r == vote_on_end_of_round_accusation(game, voter, vote)
        IN  (/\ CompletesEndOfRoundVotes(game, voter, vote)
             /\ \E v \in DOMAIN votes : ~votes[v]
             /\ EndAccusers(game) = 1..Len(game.players)) =>
              /\ r.ok
              /\ r.g.status = "finished"
              /\ r.g.winner = "spy"
              /\ r.g.end_reason = "time_expired"
              /\ \A i \in 1..Len(game.players) :
                    Gain(game, r.g, i) =
                        IF game.players[i].role = "spy" THEN 2 ELSE 0

\* C20, the count: the round's end holds at most one accusation per player.
C20_AccusationsBounded ==
    game.status \in {"end_of_round_voting", "finished"} =>
        Len(game.accusations) <= Len(game.players)

\* C20: when everybody has accused at the round's end without a unanimous
\* guilty verdict, the last resolution makes the spy win by TIME_EXPIRED with
\* +2; the round's end has at most as many accusations as players; and if
\* the accuser in turn keeps accusing and the eligible voters keep voting,
\* END_OF_ROUND_VOTING always leads to FINISHED.
C20_EndOfRoundTerminates ==
    /\ []C20_LastResolution
    /\ []C20_AccusationsBounded
    /\ (game.status = "end_of_round_voting") ~> (game.status = "finished")

\* Every player accused at the round's end, no verdict was unanimous, and
\* the spy won by default with 2 points.
C20_Witness ==
    /\ game.status = "finished"
    /\ game.end_reason = "time_expired"
    /\ game.winner = "spy"
    /\ Len(game.accusations) = Len(game.players)
    /\ LiveAccusations(game) = {}
    /\ game.players[FindPlayer(game, game.spy_id)].points = 2

\* The changes of Game.status the engine makes.
PhaseEdges ==
    {<<"waiting", "in_progress">>,
     <<"in_progress", "voting">>,
     <<"voting", "in_progress">>,
     <<"in_progress", "end_of_round_voting">>,
     <<"in_progress", "finished">>,
     <<"voting", "finished">>,
     <<"end_of_round_voting", "finished">>}



\* C21: every step that changes the phase goes WAITING -> IN_PROGRESS,
\* IN_PROGRESS -> VOTING, VOTING -> IN_PROGRESS, IN_PROGRESS ->
\* END_OF_ROUND_VOTING, or IN_PROGRESS / VOTING / END_OF_ROUND_VOTING ->
\* FINISHED; so nothing returns to WAITING, END_OF_ROUND_VOTING never goes
\* back to IN_PROGRESS or VOTING, and no step leaves FINISHED.
C21_PhaseTransitions ==
    [][game'.status # game.status =>
          <<game.status, game'.status>> \in PhaseEdges]_vars

\* A mid-round accusation failed (VOTING -> IN_PROGRESS), the round ran out
\* and an end-of-round accusation ended the game.
C21_Witness ==
    /\ game.status = "finished"
    /\ game.clock_stopped_by = "time_expired"
    /\ Len(game.accusations) = 2
    /\ ~game.accusations[1].is_active
    /\ Cardinality(DOMAIN game.accusations[1].votes) > 0
    /\ game.accusations[2].is_active

\* C22, the contract of one call: add_player refuses exactly when the roster
\* has 8 players, the phase is not WAITING or the id is in the roster; a
\* refused call changes nothing and an accepted one appends the player.
C22_AddPlayerContract ==
    \A c \in NineIds :
        LET r == add_player(game, Player(c, FALSE))
        IN  /\ ~r.ok <=> \/ Len(game.players) >= 8
                         \/ game.status # "waiting"
                         \/ c \in PlayerIds(game)
            /\ ~r.ok => r.g = game
            /\ r.ok => r.g = [game EXCEPT
                                 !.players = Append(game.players,
                                                    Player(c, FALSE))]

\* C22, the roster: at most 8 players, with pairwise distinct ids.
C22_RosterBounded ==
    /\ Len(game.players) <= 8
    /\ \A i, j \in 1..Len(game.players) :
          game.players[i].id = game.players[j].id => i = j

\* C22: add_player keeps its contract, the roster never has more than 8
\* players or two players with one id, and no step taken after the game has
\* started makes the roster longer.
C22_RosterGrowsOnlyWhileWaiting ==
    /\ []C22_AddPlayerContract
    /\ []C22_RosterBounded
    /\ [][game.status # "waiting" =>
              Len(game'.players) <= Len(game.players)]_vars

\* A game of eight players has started: the ninth client, and every player
\* of the roster, is refused.
C22_Witness ==
    /\ Len(game.players) = 8
    /\ game.status = "in_progress"
    /\ \A c \in NineIds : ~add_player(game, Player(c, FALSE)).ok

\* The results start_game can have on g: with or without the shuffle, which
\* turns the roster by 0 or 1 places, any player as the spy, either location
\* and two orders of its role list.
StartCalls(g, n) ==
    LET len == Len(g.players)
    IN  {start_game(g, ro, [i \in 1..len |-> ((i - 1 + k) % len) + 1], s, l,
                    Rotate(LOCATIONS[l].roles, j), LOCATIONS[l].roles[1], n)
         : ro \in BOOLEAN, k \in {0, 1}, s \in 1..Max(len, 1),
           l \in 1..Len(LOCATIONS), j \in {0, 3}}

\* C23: start_game succeeds exactly when the roster has at least 3 players
\* and the phase is WAITING.  It then leaves the same players, one of them
\* the Spy named by spy_id and all others Innocent with a location role of
\* the chosen location, current_turn = players[0] of the final order, the
\* timer RUNNING and the phase IN_PROGRESS; a refused call changes nothing.
C23_StartGameContract ==
    \A r \in StartCalls(game, now) :
        /\ r.ok <=> (Len(game.players) >= 3 /\ game.status = "waiting")
        /\ ~r.ok => r.g = game
        /\ r.ok =>
              LET ps == r.g.players
                  spies == {i \in 1..Len(ps) : ps[i].role = "spy"}
              IN  /\ {ps[i].id : i \in 1..Len(ps)} = PlayerIds(game)
                  /\ Len(ps) = Len(game.players)
                  /\ Cardinality(spies) = 1
                  /\ \A i \in spies : ps[i].id = r.g.spy_id
                  /\ \A i \in (1..Len(ps)) \ spies :
                        /\ ps[i].role = "innocent"
                        /\ ps[i].location_role # None
                        /\ \E j \in 1..Len(r.g.location.roles) :
                              ps[i].location_role = r.g.location.roles[j]
                  /\ r.g.current_turn = ps[1].id
                  /\ r.g.timer.status = "running"
                  /\ r.g.timer.is_running
                  /\ r.g.status = "in_progress"

\* A game of exactly three players has started: one Spy, two Innocents with
\* location roles, the dealer holds the turn and the timer runs; starting it
\* again is refused.
C23_Witness ==
    /\ Len(game.players) = 3
    /\ game.status = "in_progress"
    /\ game.timer.status = "running"
    /\ game.current_turn = game.players[1].id
    /\ Cardinality({i \in 1..3 : game.players[i].role = "spy"}) = 1
    /\ Cardinality({i \in 1..3 : game.players[i].role = "innocent"
                                   /\ game.players[i].location_role # None}) = 2
    /\ \A r \in StartCalls(game, now) : ~r.ok

\* The changes of TimerState.status the claim allows.
TimerEdges ==
    {<<"not_started", "running">>,
     <<"running", "paused">>,
     <<"paused", "running">>,
     <<"running", "expired">>,
     <<"paused", "expired">>}

\* C24, the calls: start succeeds exactly from NOT_STARTED, pause exactly
\* from RUNNING and resume exactly from PAUSED, each with the status of its
\* edge as the result; on an EXPIRED timer the three fail and change
\* nothing, and the remaining time is 0.
C24_TimerCalls ==
    LET t == game.timer
        s == timer_start(t, now)
        p == timer_pause(t, now)
        r == timer_resume(t, now)
    IN  /\ s.val <=> t.status = "not_started"
        /\ p.val <=> t.status = "running"
        /\ r.val <=> t.status = "paused"
        /\ s.val => s.t.status = "running"
        /\ p.val => p.t.status = "paused"
        /\ r.val => r.t.status = "running"
        /\ ~s.val => s.t = t
        /\ ~p.val => p.t = t
        /\ ~r.val => r.t = t
        /\ t.status = "expired" =>
              /\ get_remaining_time(t, now).val = 0
              /\ get_remaining_time(t, now).t.status = "expired"

\* C24: the timer's status changes only along NOT_STARTED -> RUNNING,
\* RUNNING -> PAUSED, PAUSED -> RUNNING and RUNNING or PAUSED -> EXPIRED;
\* start, pause and resume succeed only from NOT_STARTED, RUNNING and PAUSED;
\* no operation of the timer changes the status of an EXPIRED timer, whose
\* remaining time stays 0.
C24_TimerTransitions ==
    /\ []C24_TimerCalls
    /\ [][game'.timer.status # game.timer.status =>
              <<game.timer.status, game'.timer.status>> \in TimerEdges]_vars

\* max(0, duration - elapsed): what get_remaining_time computes for a timer
\* that is not EXPIRED.
Remaining(t, n) == Max(0, t.duration - get_elapsed_time(t, n))

\* C25, the elapsed time: as long as the timer is not EXPIRED, its elapsed
\* time is the number of ticks it has spent RUNNING.
C25_ElapsedIsRunningTime ==
    game.timer.status # "expired" => get_elapsed_time(game.timer, now) = ran

\* C25: with a discrete clock, the elapsed time of a timer driven by start,
\* pause and resume is the time it has spent RUNNING, whatever the number of
\* pauses; it stands still while the timer stays PAUSED, and a PAUSED timer
\* with time remaining is not EXPIRED by any step.
C25_PausedTimeNotCounted ==
    /\ []C25_ElapsedIsRunningTime
    /\ [][(game.timer.status = "paused" /\ game'.timer.status = "paused") =>
              get_elapsed_time(game'.timer, now') = get_elapsed_time(game.timer, now)]_vars
    /\ [][(game.timer.status = "paused" /\ Remaining(game.timer, now) > 0) =>
              game'.timer.status # "expired"]_vars

\* The timer ran for one tick, was paused for two and runs again: of the
\* three ticks since its start one has elapsed and one remains.
C25_Witness ==
    /\ game.timer.status = "running"
    /\ game.timer.accumulated_paused_time = 2
    /\ now - game.timer.started_at = 3
    /\ ran = 1
    /\ get_elapsed_time(game.timer, now) = 1
    /\ Remaining(game.timer, now) = 1

\* The bot tasks of the game that have not ended and on which cancel() has
\* not been called, counted.
LiveTasks(s) ==
    (IF s.task # NoTask THEN 1 ELSE 0)
    + Cardinality({z \in s.old : ~z.cancelled})

\* C26: at most one bot task of the game is neither cancelled nor finished,
\* and it is the entry of pending_tasks: every other task that has not ended
\* was cancelled in the step that replaced or removed its entry.
C26_OnePendingTask ==
    /\ LiveTasks(sys) <= 1
    /\ \A z \in sys.old : z.cancelled

\* A handler has scheduled a bot turn while the task scheduled before, now
\* cancelled, has not been stepped yet.
C26_Witness ==
    /\ sys.task = Task("turn", "sleep", <<>>, None)
    /\ \E z \in sys.old : z.cancelled /\ z.task.kind = "turn"

\* C27: the step of a task that has been cancelled, by schedule_task or by
\* the cancel_pending_task of an accusation, leaves the game as it is,
\* whenever the event loop takes it.
C27_CancelledTaskKeepsGame ==
    [][\A z \in sys.old : (z.cancelled /\ StepSuperseded(z)) => game' = game]_vars

\* A task that votes for the bots was cancelled in its sleep between the
\* votes of two bots: the first bot's vote is in, the second bot is the one
\* left on the task's list.
C27_Witness ==
    \E z \in sys.old :
        /\ z.cancelled
        /\ z.task.pc = "vote_wait"
        /\ Len(z.task.bots) = 1
        /\ current_accusation(game) # 0
        /\ \E b \in DOMAIN game.accusations[current_accusation(game)].votes :
              /\ FindPlayer(game, b) # 0
              /\ game.players[FindPlayer(game, b)].is_bot
              /\ b # z.task.bots[1]

\* The turn is with the bot b, the clock runs and the last message of the log
\* is a question addressed to b.
BotOwesAnswer(b) ==
    /\ game.status = "in_progress"
    /\ ~game.clock_stopped
    /\ game.current_turn = b
    /\ FindPlayer(game, b) # 0
    /\ game.players[FindPlayer(game, b)].is_bot
    /\ Len(game.messages) > 0
    /\ game.messages[Len(game.messages)].type = "question"
    /\ game.messages[Len(game.messages)].to_id = b

\* The log holds an answer given by b.
BotAnswered(b) ==
    \E k \in 1..Len(game.messages) :
        /\ game.messages[k].type = "answer"
        /\ game.messages[k].from_id = b

\* C28: a bot that holds the turn and was asked the last question of the log
\* eventually answers, unless an accusation comes in or the game leaves
\* IN_PROGRESS first.
C28_BotEventuallyAnswers ==
    \A b \in {"b1", "b2"} :
        BotOwesAnswer(b)
            ~> (\/ BotAnswered(b)
                \/ game.accusations # <<>>
                \/ game.status # "in_progress")

\* The connection of the player c is lost in this step.
Disconnects(c) ==
    /\ FindPlayer(game, c) # 0
    /\ game.players[FindPlayer(game, c)].is_connected
    /\ \/ FindPlayer(game', c) = 0
       \/ ~game'.players[FindPlayer(game', c)].is_connected

\* The player c, whose connection was lost, is connected again after this step.
Reconnects(c) ==
    /\ FindPlayer(game, c) # 0
    /\ ~game.players[FindPlayer(game, c)].is_connected
    /\ \E k \in 1..Len(game'.players) :
          game'.players[k].id = c /\ game'.players[k].is_connected

\* The game with the connectivity flag of its i-th player set to b.  The state
\* sent to the clients afterwards reads the timer, which may mark it EXPIRED.
WithFlag(g, i, b, timer) ==
    [g EXCEPT !.players[i].is_connected = b, !.timer = timer]

C30_SpyDisconnectEndsGame ==
    [][\A c \in Disconnecters :
          (Disconnects(c) /\ game.status = "in_progress" /\ game.spy_id = c)
              => /\ game'.status = "finished"
                 /\ game'.winner = "innocents"
                 /\ game'.end_reason = "spy_accused"
      ]_vars

\* The dictionary sent to the Spy of g.
SpySnapshot(g) == to_player_dict(g, g.spy_id, now)

\* C31: two games that differ in the location and in the location roles of
\* the innocents, taken through the same calls, are in the same phase, and
\* before FINISHED the dictionary sent to the Spy is the same in both and
\* carries no location, and no player's dictionary carries a spyId.
C31_SpySnapshotsAgree ==
    /\ game.status = twin.status
    /\ game.spy_id = twin.spy_id
    /\ (game.status \notin {"waiting", "finished"})
          => /\ SpySnapshot(game) = SpySnapshot(twin)
             /\ SpySnapshot(game).location = None
             /\ SpySnapshot(twin).location = None
    /\ game.status # "finished"
          => \A p \in Clients :
                /\ to_player_dict(game, p, now).spyId = None
                /\ to_player_dict(twin, p, now).spyId = None

\* The two games are in a vote after a question, their locations differ, and
\* an innocent of the one game is sent another dictionary than in the other.
C31_Witness ==
    /\ game.status = "voting"
    /\ Len(game.messages) > 0
    /\ game.location.name # twin.location.name
    /\ \E p \in PlayerIds(game) :
          /\ p # game.spy_id
          /\ to_player_dict(game, p, now) # to_player_dict(twin, p, now)

\* The player c has the flag has_accused_this_round set in g.
HasAccused(g, c) ==
    /\ FindPlayer(g, c) # 0
    /\ g.players[FindPlayer(g, c)].has_accused_this_round

\* Until the round's time is up every accusation of the history is a
\* mid-round one: no two have the same accuser, each accuser is a player
\* whose flag is set, so there are at most as many as players.
OneAccusationEach ==
    game.status \in {"in_progress", "voting"}
        => /\ \A i, j \in 1..Len(game.accusations) :
                 game.accusations[i].accuser_id = game.accusations[j].accuser_id
                     => i = j
           /\ \A i \in 1..Len(game.accusations) :
                 HasAccused(game, game.accusations[i].accuser_id)
           /\ Len(game.accusations) <= Len(game.players)

\* C32: a has_accused_this_round flag is cleared only by the step that takes
\* the game into END_OF_ROUND_VOTING; every step from IN_PROGRESS to VOTING
\* adds one accusation whose accuser had not accused before; and no player
\* is the accuser of two mid-round accusations.
C32_FlagClearedOnlyAtRoundEnd ==
    /\ []OneAccusationEach
    /\ [][/\ \A c \in Clients :
                (HasAccused(game, c) /\ ~HasAccused(game', c))
                    => /\ game.status # "end_of_round_voting"
                       /\ game'.status = "end_of_round_voting"
          /\ (game.status = "in_progress" /\ game'.status = "voting")
                => /\ Len(game'.accusations) = Len(game.accusations) + 1
                   /\ LET acc == game'.accusations[Len(game'.accusations)]
                      IN  /\ ~HasAccused(game, acc.accuser_id)
                          /\ HasAccused(game', acc.accuser_id)
         ]_vars

\* p2 and p3 have both accused in the round, two accusations failed, and the
\* time then ran out: the flags are clear again in END_OF_ROUND_VOTING.
C32_Witness ==
    /\ game.status = "end_of_round_voting"
    /\ Len(game.accusations) = 2
    /\ game.accusations[1].accuser_id # game.accusations[2].accuser_id
    /\ \A i \in 1..Len(game.players) : ~game.players[i].has_accused_this_round

\* C33: generate_question returns None or a pair whose target is one of the
\* available targets, and should_make_accusation returns a decision to
\* accuse only with a target that is one of the potential targets.
C33_DecisionsAreLegal ==
    /\ (call.op = "generate_question" /\ call.result.some)
          => call.result.target_id \in call.targets
    /\ (call.op = "should_make_accusation" /\ call.result.some
            /\ call.result.should_accuse)
          => call.result.target_id \in call.targets

\* should_make_accusation was called with a completion that says TRUE and
\* names one of two potential targets, and returned the accusation.
C33_Witness ==
    /\ call.op = "should_make_accusation"
    /\ call.response.should_accuse = "TRUE"
    /\ Cardinality(call.targets) = 2
    /\ call.result.some
    /\ call.result.should_accuse
    /\ call.result.target_id \in call.targets

\* The vote a bot has just cast completed the votes of a mid-round accusation
\* that failed: the voting task is at the send after its vote, the game is
\* IN_PROGRESS again with the clock running, and the turn is with a bot.
BotVoteFreedBotTurn ==
    /\ sys.task.pc = "vote_sent"
    /\ game.status = "in_progress"
    /\ ~game.clock_stopped
    /\ Len(game.accusations) > 0
    /\ ~game.accusations[Len(game.accusations)].is_active
    /\ FindPlayer(game, game.current_turn) # 0
    /\ game.players[FindPlayer(game, game.current_turn)].is_bot
    /\ game.messages = <<>>

\* C34: once a bot's vote has sent the game back to IN_PROGRESS with a bot
\* holding the turn, a message of that bot eventually appears in the log
\* (the log is empty until then: no client asks in SpecVotesFair).
C34_BotPlaysOnAfterFailedVote ==
    BotVoteFreedBotTurn
        ~> (\/ Len(game.messages) > 0
            \/ game.status # "in_progress")

\* The questions of the log.
NumQuestions(g) ==
    Cardinality({k \in 1..Len(g.messages) : g.messages[k].type = "question"})

\* C35: every answer of the log comes right after a question, from the
\* player that question was addressed to and to the player who asked it, and
\* qa_rounds_completed counts these pairs, so it is at most the number of
\* questions.
C35_AnswersFollowQuestions ==
    /\ \A k \in 1..Len(game.messages) :
          game.messages[k].type = "answer"
              => /\ k > 1
                 /\ game.messages[k - 1].type = "question"
                 /\ game.messages[k - 1].to_id = game.messages[k].from_id
                 /\ game.messages[k - 1].from_id = game.messages[k].to_id
    /\ game.qa_rounds_completed <= NumQuestions(game)

\* C36: the game is never in VOTING with as many votes recorded on the live
\* accusation as there are eligible voters, which is the condition under
\* which vote_on_accusation runs the resolution: a resolution leaves the
\* game FINISHED or IN_PROGRESS.
C36_ResolutionLeavesVoting ==
    game.status = "voting"
        => /\ current_accusation(game) # 0
           /\ LET acc == game.accusations[current_accusation(game)]
              IN  Cardinality(DOMAIN acc.votes) # NumEligible(game, acc.accused_id)

\* C37: IN_PROGRESS goes with a running clock and no live accusation, VOTING
\* with a stopped clock, exactly one live accusation and a timer that is not
\* RUNNING, END_OF_ROUND_VOTING with a stopped clock; and while an
\* accusation is live no step adds a message to the log or ends the game by
\* a location guess.
C37_PhaseAndClockAgree ==
    /\ [](/\ game.status = "in_progress"
                => /\ ~game.clock_stopped
                   /\ LiveAccusations(game) = {}
          /\ game.status = "voting"
                => /\ game.clock_stopped
                   /\ Cardinality(LiveAccusations(game)) = 1
                   /\ game.timer.status # "running"
          /\ game.status = "end_of_round_voting" => game.clock_stopped)
    /\ [][LiveAccusations(game) # {}
             => /\ game'.messages = game.messages
                /\ game'.end_reason \in {"spy_guessed_location", "spy_failed_guess"}
                      => game'.end_reason = game.end_reason]_vars

\* A mid-round accusation is being voted on after a question and an answer,
\* with the timer paused.
C37_Witness ==
    /\ game.status = "voting"
    /\ game.clock_stopped
    /\ game.timer.status = "paused"
    /\ Len(game.messages) >= 2
    /\ Cardinality(DOMAIN game.accusations[Len(game.accusations)].votes) > 0

\* The points of the player p of g.
PointsOf(g, p) == g.players[FindPlayer(g, p)].points

\* Some player's points differ between g and h.
PointsChanged(g, h) ==
    \E p \in PlayerIds(g) \cap PlayerIds(h) : PointsOf(g, p) # PointsOf(h, p)

\* C38: winner and end_reason are set exactly when the game is FINISHED, and
\* the points of the players change in the step that takes the game to
\* FINISHED and in no other step.
C38_ScoredOnceAtTheEnd ==
    /\ [](/\ game.winner # None <=> game.status = "finished"
          /\ game.end_reason # None <=> game.status = "finished")
    /\ [][PointsChanged(game, game')
              <=> (game.status # "finished" /\ game'.status = "finished")]_vars

\* The game was ended by a guilty verdict against the Spy: the accuser has
\* two points, another innocent one, the Spy none.
C38_Witness ==
    /\ game.status = "finished"
    /\ game.winner = "innocents"
    /\ game.end_reason = "spy_accused"
    /\ \E i, j \in 1..Len(game.players) :
          /\ game.players[i].points = 2
          /\ game.players[j].points = 1
    /\ PointsOf(game, game.spy_id) = 0

\* C39: every Accusation of the history has an accuser other than its
\* accused.
C39_NoSelfAccusation ==
    \A i \in 1..Len(game.accusations) :
        game.accusations[i].accuser_id # game.accusations[i].accused_id

\* The step casts the vote that completes the votes of the accusation c,
\* which is what makes vote_on_accusation and
\* vote_on_end_of_round_accusation run the resolution.
Resolves(c) ==
    /\ c # 0
    /\ game.status \in {"voting", "end_of_round_voting"}
    /\ Len(game'.accusations) >= c
    /\ game'.accusations[c].votes # game.accusations[c].votes
    /\ Cardinality(DOMAIN game'.accusations[c].votes)
          = NumEligible(game, game.accusations[c].accused_id)

\* C40: the step that resolves the live accusation leaves it in the history
\* with is_active false, whatever the verdict, and no step takes an
\* Accusation out of the history.
C40_ResolvedIsNotLive ==
    [][/\ Resolves(current_accusation(game))
             => ~game'.accusations[current_accusation(game)].is_active
       /\ Len(game'.accusations) >= Len(game.accusations)
       /\ \A i \in 1..Len(game.accusations) :
             /\ game'.accusations[i].accuser_id = game.accusations[i].accuser_id
             /\ game'.accusations[i].accused_id = game.accusations[i].accused_id
      ]_vars

====
